---- MODULE Spec2Model ----
(***************************************************************************)
(* Model of the statement / identity-document processing pipeline:         *)
(*   - cleanJsonString and the POST handlers of the API routes             *)
(*     (web/src/app/api/process-pdf/route.ts, the passport route),         *)
(*   - parseSummaryData and the render functions of SummaryCard            *)
(*     (web/src/components/layout/summary-card.tsx).                       *)
(*                                                                         *)
(* Text is a sequence of units.  A unit is one character, or one JSON      *)
(* lexeme (a string literal, a number literal) that the string operations  *)
(* of the code never split.  Every unit is a record [k, s, n]:             *)
(*   k = "c"  a character s                                                *)
(*   k = "s"  a string literal with content s                              *)
(*   k = "n"  a number literal of n pence (n / 100, two decimals)          *)
(*   k = "q"  a string literal whose content is the decimal text of n pence*)
(*   k = "p"  a run of prose s (no white space, brace, bracket or fence)   *)
(***************************************************************************)
EXTENDS Integers, Sequences, FiniteSets, TLC

VARIABLES
    sIn,        \* sanitizer: the string handed to cleanJsonString
    sOut,       \* sanitizer: cleanJsonString(sIn)
    sOut2,      \* sanitizer: cleanJsonString(sOut)
    sPc,        \* sanitizer: "start" | "cleaned" | "recleaned" | "idle"
    payload,    \* card: what the model put into its answer
    summary,    \* card: the summary prop of SummaryCard, a text
    summaryData,    \* card: parseSummaryData(summary), JNull for null
    totalIncome,    \* card: renderIncomeAndOutgoings' totalIncome
    totalOutgoings, \* card: renderIncomeAndOutgoings' totalOutgoings
    netBalance,     \* card: renderIncomeAndOutgoings' netBalance
    cPc,        \* card: the render step SummaryCard is at ("parse", "personal",
                \* "income", "commentary", "redFlags", "recommendations"), how it
                \* ended ("unparsed": the unable-to-parse notice, "rendered",
                \* "threwPersonal" ... "threwRecommendations": the render function
                \* that threw a TypeError), or "idle"
    clock,      \* routes: what Date.now() returns, in milliseconds
    jobs,       \* routes: per submission, the request and where its handler is
    temp,       \* routes: the files of TEMP_DIR: <<timestamp, name>> -> the
                \* submission whose bytes the file holds
    dirs,       \* routes: the job directories of OUTPUT_DIR, by timestamp
    outFiles,   \* routes: the files the scripts wrote: <<timestamp, name>> -> text
    rawFiles,   \* routes: raw_gemini_response_<timestamp>.txt: timestamp -> text
    file,       \* page: the uploaded file at hand: [name, type], name a sequence
                \* of pieces of the file name, the extension last
    documentType,   \* page: what detectAndNotifyDocumentType returned for it
    dispatched,     \* page: the branch handleAnalyzeDocuments took for it
    hPc,        \* page: "uploading", "uploaded", "analysed", or "idle"
    leftChatMessages,   \* page: the chat, a sequence of messages
    uploadedFiles,      \* page: the files uploaded, in upload order
    isProcessing,       \* page: the state isProcessing
    homeSummaryData,    \* page: the state summaryData of Home, <<>> for null
    drivingLicenseData, \* page: the state drivingLicenseData, <<>> for null
    processingMessageInterval,  \* page: the state of that name, 0 for null
    timers,     \* page: the intervals set and not cleared: [id, firstMessageId]
    runs,       \* page: the calls of handleAnalyzeDocuments, in the order of
                \* the clicks: what each captured, where it is, what it did
    nextId      \* page: the next value generateUniqueId / setInterval returns

sanVars == <<sIn, sOut, sOut2, sPc>>
cardVars == <<payload, summary, summaryData, totalIncome, totalOutgoings, netBalance, cPc>>

jobVars == <<clock, jobs, temp, dirs, outFiles, rawFiles>>
pageVars == <<leftChatMessages, uploadedFiles, isProcessing, homeSummaryData,
              drivingLicenseData, processingMessageInterval, timers, runs, nextId>>
homeVars == <<file, documentType, dispatched, hPc, pageVars>>

vars == <<sIn, sOut, sOut2, sPc,
          payload, summary, summaryData, totalIncome, totalOutgoings, netBalance, cPc,
          clock, jobs, temp, dirs, outFiles, rawFiles,
          file, documentType, dispatched, hPc,
          leftChatMessages, uploadedFiles, isProcessing, homeSummaryData,
          drivingLicenseData, processingMessageInterval, timers, runs, nextId>>

(***************************************************************************)
(* Text                                                                    *)
(***************************************************************************)
Ch(c) == [k |-> "c", s |-> c, n |-> 0]
ProseRun(c) == [k |-> "p", s |-> c, n |-> 0]
StrLit(c) == [k |-> "s", s |-> c, n |-> 0]
NumLit(p) == [k |-> "n", s |-> "", n |-> p]
NumStrLit(p) == [k |-> "q", s |-> "", n |-> p]

Chars(cs) == [i \in 1..Len(cs) |-> Ch(cs[i])]

\* the character U+0060 (grave accent), the fence character
BackTick == "backtick"
Fence == Chars(<<BackTick, BackTick, BackTick>>)
FenceJson == Fence \o Chars(<<"j", "s", "o", "n">>)
FenceLen == 3
FenceJsonLen == 7

\* String.prototype.trim: white space and line terminators
IsWs(u) == u.k = "c" /\ u.s \in {" ", "\n"}

RECURSIVE TrimStart(_)
TrimStart(t) ==
    IF t # <<>> /\ IsWs(t[1]) THEN TrimStart(Tail(t)) ELSE t

RECURSIVE TrimEnd(_)
TrimEnd(t) ==
    IF t # <<>> /\ IsWs(t[Len(t)]) THEN TrimEnd(SubSeq(t, 1, Len(t) - 1)) ELSE t

Trim(t) == TrimEnd(TrimStart(t))

StartsWith(t, p) == Len(t) >= Len(p) /\ SubSeq(t, 1, Len(p)) = p
EndsWith(t, p) == Len(t) >= Len(p) /\ SubSeq(t, Len(t) - Len(p) + 1, Len(t)) = p

\* String.prototype.substring(a) and substring(0, b), arguments clamped to
\* 0..length as substring does
SubstringFrom(t, a) ==
    LET lo == IF a > Len(t) THEN Len(t) ELSE a
    IN  SubSeq(t, lo + 1, Len(t))
SubstringTo(t, b) ==
    LET hi == IF b < 0 THEN 0 ELSE IF b > Len(t) THEN Len(t) ELSE b
    IN  SubSeq(t, 1, hi)

(***************************************************************************)
(* JavaScript numbers: IEEE 754 binary64, round to nearest, ties to even.  *)
(* A number is [neg, m, e] with value (-1)^neg * m * 2^e; m is a natural    *)
(* number written as its bits, most significant first, without leading or  *)
(* trailing zeros (so equal numbers are equal records); zero is m = <<>>,  *)
(* e = 0.  The amounts of the model stay far from overflow and from the    *)
(* subnormal range, which are left out.                                    *)
(***************************************************************************)
Precision == 53

\* const v = x; F(v): x is worked out once, whatever F does with it
Once(x, F(_)) == CHOOSE y \in { F(v) : v \in {x} } : TRUE

Zeros(k) == [i \in 1..k |-> 0]
Front(b) == SubSeq(b, 1, Len(b) - 1)
Last(b) == b[Len(b)]

\* Arithmetic on bit strings goes through machine integers, ChunkBits bits
\* at a time.
ChunkBits == 12 + 12
ChunkBase == 2 ^ ChunkBits

StripLeading(b0) ==
    Once(b0, LAMBDA b :
        IF \A i \in 1..Len(b) : b[i] = 0 THEN <<>>
        ELSE LET f == CHOOSE i \in 1..Len(b) :
                          b[i] = 1 /\ \A j \in 1..(i - 1) : b[j] = 0
             IN  SubSeq(b, f, Len(b)))

RECURSIVE NatBits(_)
NatBits(n) == IF n = 0 THEN <<>> ELSE NatBits(n \div 2) \o <<n % 2>>

\* the number a bit string of at most ChunkBits bits denotes
RECURSIVE BitsNat(_)
BitsNat(b0) ==
    Once(b0, LAMBDA b :
        IF b = <<>> THEN 0
        ELSE IF Len(b) = 1 THEN b[1]
        ELSE LET h == Len(b) \div 2
             IN  BitsNat(SubSeq(b, 1, h)) * (2 ^ (Len(b) - h))
                     + BitsNat(SubSeq(b, h + 1, Len(b))))

\* n as exactly w bits
NatBitsW(n, w) == [i \in 1..w |-> (n \div (2 ^ (w - i))) % 2]

\* b with zeros in front, to a whole number of chunks of w bits that is at
\* least n bits long with one chunk to spare
PadTo(b, n, w) == Zeros(((n \div w) + 2) * w - Len(b)) \o b

LowChunk(b, w) == BitsNat(SubSeq(b, Len(b) - w + 1, Len(b)))
HighPart(b, w) == SubSeq(b, 1, Len(b) - w)

RECURSIVE AddChunks(_, _, _)
AddChunks(a0, b0, c) ==
    Once(<<a0, b0>>, LAMBDA ab :
        LET a == ab[1]
            b == ab[2]
        IN  IF a = <<>> THEN <<>>
            ELSE Once(LowChunk(a, ChunkBits) + LowChunk(b, ChunkBits) + c, LAMBDA t :
                     AddChunks(HighPart(a, ChunkBits), HighPart(b, ChunkBits),
                               t \div ChunkBase)
                         \o NatBitsW(t % ChunkBase, ChunkBits)))

MaxLen(a, b) == IF Len(a) < Len(b) THEN Len(b) ELSE Len(a)

BitsAdd(a0, b0) ==
    Once(<<a0, b0>>, LAMBDA ab :
        StripLeading(AddChunks(PadTo(ab[1], MaxLen(ab[1], ab[2]), ChunkBits),
                               PadTo(ab[2], MaxLen(ab[1], ab[2]), ChunkBits), 0)))

\* a - b for a >= b
RECURSIVE SubChunks(_, _, _)
SubChunks(a0, b0, br) ==
    Once(<<a0, b0>>, LAMBDA ab :
        LET a == ab[1]
            b == ab[2]
        IN  IF a = <<>> THEN <<>>
            ELSE Once(LowChunk(a, ChunkBits) - LowChunk(b, ChunkBits) - br, LAMBDA t :
                     SubChunks(HighPart(a, ChunkBits), HighPart(b, ChunkBits),
                               IF t < 0 THEN 1 ELSE 0)
                         \o NatBitsW(IF t < 0 THEN t + ChunkBase ELSE t, ChunkBits)))

BitsSub(a0, b0) ==
    Once(<<a0, b0>>, LAMBDA ab :
        StripLeading(SubChunks(PadTo(ab[1], MaxLen(ab[1], ab[2]), ChunkBits),
                               PadTo(ab[2], MaxLen(ab[1], ab[2]), ChunkBits), 0)))

BitsLess(a, b) ==
    \/ Len(a) < Len(b)
    \/ /\ Len(a) = Len(b)
       /\ \E i \in 1..Len(a) :
              a[i] < b[i] /\ \A j \in 1..(i - 1) : a[j] = b[j]

ShiftLeft(b, k) == IF b = <<>> THEN b ELSE b \o Zeros(k)

\* quotient (with leading zeros) and remainder of a by the small number d,
\* a being a whole number of chunks
RECURSIVE DivChunks(_, _)
DivChunks(a0, d) ==
    Once(a0, LAMBDA a :
        IF a = <<>> THEN [q |-> <<>>, r |-> 0]
        ELSE Once(DivChunks(HighPart(a, ChunkBits - 4), d), LAMBDA p :
                 LET v == p.r * (2 ^ (ChunkBits - 4)) + LowChunk(a, ChunkBits - 4)
                 IN  [q |-> p.q \o NatBitsW(v \div d, ChunkBits - 4), r |-> v % d]))

DivSmall(a0, d) == Once(a0, LAMBDA a : DivChunks(PadTo(a, Len(a), ChunkBits - 4), d))

Canon(m0, e) ==
    Once(m0, LAMBDA m :
        IF \A i \in 1..Len(m) : m[i] = 0 THEN [m |-> <<>>, e |-> 0]
        ELSE LET l == CHOOSE i \in 1..Len(m) :
                          m[i] = 1 /\ \A j \in (i + 1)..Len(m) : m[j] = 0
             IN  [m |-> SubSeq(m, 1, l), e |-> e + Len(m) - l])

\* (b + f) * 2^e rounded to Precision bits, where 0 <= f < 1 and
\* sticky says whether f > 0
RoundBits(b0, sticky, e) ==
    Once(b0, LAMBDA b :
        IF Len(b) <= Precision THEN Canon(b, e)
        ELSE LET top == SubSeq(b, 1, Precision)
                 guard == b[Precision + 1]
                 st == sticky \/ \E i \in (Precision + 2)..Len(b) : b[i] = 1
                 up == guard = 1 /\ (st \/ Last(top) = 1)
             IN  Canon(IF up THEN BitsAdd(top, <<1>>) ELSE top, e + Len(b) - Precision))

Float(neg, mag) == [neg |-> neg /\ mag.m # <<>>, m |-> mag.m, e |-> mag.e]

FZero == [neg |-> FALSE, m |-> <<>>, e |-> 0]

\* The number a decimal literal of p pence (p / 100) denotes: the nearest
\* binary64 number
FromPence(p) ==
    LET a == IF p < 0 THEN 0 - p ELSE p
    IN  Once(DivSmall(ShiftLeft(NatBits(a), Precision + 9), 100), LAMBDA dv :
            Once(RoundBits(StripLeading(dv.q), dv.r # 0, 0 - (Precision + 9)), LAMBDA mag :
                Float(p < 0, mag)))

\* a with the last k decimal digits cut off, and whether any of them was
\* not 0; a is a bit string
RECURSIVE DivPow10(_, _)
DivPow10(a0, k) ==
    IF k = 0 THEN [q |-> a0, r |-> 0]
    ELSE Once(DivSmall(a0, 10), LAMBDA dv :
             Once(DivPow10(StripLeading(dv.q), k - 1), LAMBDA rest :
                 [q |-> rest.q, r |-> IF dv.r # 0 THEN 1 ELSE rest.r]))

\* The number the decimal numeral n / (100 * 10^k) denotes, n a natural
\* number: the nearest binary64 number
FromDecimal(n, k) ==
    Once(DivSmall(ShiftLeft(NatBits(n), Precision + 9 + 4 * k), 100), LAMBDA dv :
        Once(DivPow10(StripLeading(dv.q), k), LAMBDA dk :
            Once(RoundBits(StripLeading(dk.q), dv.r # 0 \/ dk.r # 0,
                           0 - (Precision + 9 + 4 * k)),
                 LAMBDA mag : Float(FALSE, mag))))

FNeg(x) == [x EXCEPT !.neg = (~x.neg) /\ x.m # <<>>]

\* x + y
FAdd(x0, y0) ==
    Once(<<x0, y0>>, LAMBDA xy :
        LET x == xy[1]
            y == xy[2]
            e == IF x.e < y.e THEN x.e ELSE y.e
            a == ShiftLeft(x.m, x.e - e)
            b == ShiftLeft(y.m, y.e - e)
        IN  Once(IF x.neg = y.neg THEN RoundBits(BitsAdd(a, b), FALSE, e)
                 ELSE IF BitsLess(a, b) THEN RoundBits(BitsSub(b, a), FALSE, e)
                 ELSE RoundBits(BitsSub(a, b), FALSE, e),
                 LAMBDA mag :
                     Float(IF x.neg # y.neg /\ BitsLess(a, b) THEN y.neg ELSE x.neg, mag)))

\* x - y
FSub(x, y) == FAdd(x, FNeg(y))

(***************************************************************************)
(* cleanJsonString (process-pdf route)                                     *)
(***************************************************************************)
\* cleanJsonString with the startsWith / endsWith tests left out
cleanJsonString_Unguarded(jsonString) ==
    LET c0 == Trim(jsonString)
        c1 == SubstringFrom(c0, FenceLen)
        c2 == SubstringTo(c1, Len(c1) - FenceLen)
    IN  Trim(c2)

cleanJsonString(jsonString) ==
    LET c0 == Trim(jsonString)
        c1 == IF StartsWith(c0, FenceJson) THEN SubstringFrom(c0, FenceJsonLen)
              ELSE IF StartsWith(c0, Fence) THEN SubstringFrom(c0, FenceLen)
              ELSE c0
        c2 == IF EndsWith(c1, Fence) THEN SubstringTo(c1, Len(c1) - FenceLen)
              ELSE c1
    IN  Trim(c2)

(***************************************************************************)
(* JavaScript values, as JSON.parse builds them.  Every value is a record  *)
(* [t, num, str, keys, vals]; an object keeps its properties in insertion  *)
(* order (keys[i] has value vals[i]); the labels of the model are not      *)
(* integer-like, so insertion order is the order of Object.values.         *)
(***************************************************************************)
JUndefined == [t |-> "undefined", num |-> FZero, str |-> <<>>, keys |-> <<>>, vals |-> <<>>]
JNumber(f) == [t |-> "number", num |-> f, str |-> <<>>, keys |-> <<>>, vals |-> <<>>]
JString(u) == [t |-> "string", num |-> FZero, str |-> <<u>>, keys |-> <<>>, vals |-> <<>>]
JObject(ks, vs) == [t |-> "object", num |-> FZero, str |-> <<>>, keys |-> ks, vals |-> vs]
JArray(vs) == [t |-> "array", num |-> FZero, str |-> <<>>, keys |-> <<>>, vals |-> vs]
JNull == [t |-> "null", num |-> FZero, str |-> <<>>, keys |-> <<>>, vals |-> <<>>]
JNaN == [t |-> "NaN", num |-> FZero, str |-> <<>>, keys |-> <<>>, vals |-> <<>>]
\* a string made of pieces: units, and the texts of numbers
JText(pieces) == [t |-> "string", num |-> FZero, str |-> pieces, keys |-> <<>>, vals |-> <<>>]

\* the text String(f) of a number, as one piece of a string
NumberText(f) == [k |-> "f", s |-> "", n |-> 0, f |-> f]

\* if (v), !v
Truthy(v) ==
    IF v.t \in {"undefined", "null", "NaN"} THEN FALSE
    ELSE IF v.t = "number" THEN v.num.m # <<>>
    ELSE IF v.t = "string" THEN v.str # <<>>
    ELSE TRUE

\* a + b
JPlus(a, b) ==
    IF a.t = "number" /\ b.t = "number" THEN JNumber(FAdd(a.num, b.num))
    ELSE IF a.t = "string" /\ b.t = "number" THEN JText(a.str \o <<NumberText(b.num)>>)
    ELSE IF a.t = "number" /\ b.t = "string" THEN JText(<<NumberText(a.num)>> \o b.str)
    ELSE IF a.t = "string" /\ b.t = "string" THEN JText(a.str \o b.str)
    ELSE JNaN

\* how many decimal digits the natural number n is written with
RECURSIVE DigitCount(_)
DigitCount(n) == IF n < 10 THEN 1 ELSE 1 + DigitCount(n \div 10)

\* the digits of the natural numbers ns written one after the other, read
\* as one natural number, and how many digits that is
RECURSIVE Digits(_)
Digits(ns) ==
    IF ns = <<>> THEN [v |-> 0, len |-> 0]
    ELSE Once(Digits(Front(ns)), LAMBDA d :
             [v |-> d.v * (10 ^ DigitCount(Last(ns))) + Last(ns),
              len |-> d.len + DigitCount(Last(ns))])

\* the piece is String(f) of a whole number that is not negative: digits only
IsWholeText(u) == u.k = "f" /\ ~u.f.neg /\ u.f.e >= 0
WholeValue(u) == BitsNat(ShiftLeft(u.f.m, u.f.e))

\* Number(s) for a string s, as the operator - applies it.  The pieces of a
\* string are literals and texts of numbers; a literal of kind "q" reads
\* d.dd, the other literals of the model hold letters.  So s is a numeral
\* when it is empty, or when it has one "q" piece and otherwise texts of
\* whole numbers: digits before and after the one decimal point.  (No
\* amount of the model is negative, so no text opens with a sign, and the
\* numerals of the model fit a machine integer.)
ToNumber(v) ==
    IF v.t = "number" THEN v
    ELSE IF v.t # "string" THEN JNaN
    ELSE IF v.str = <<>> THEN JNumber(FZero)
    ELSE Once(v.str, LAMBDA s :
        LET qs == { i \in 1..Len(s) : s[i].k = "q" }
        IN  IF Cardinality(qs) # 1
                \/ \E i \in 1..Len(s) : i \notin qs /\ ~IsWholeText(s[i])
            THEN JNaN
            ELSE LET i == CHOOSE x \in qs : TRUE
                     pre == [x \in 1..(i - 1) |-> WholeValue(s[x])]
                     post == [x \in 1..(Len(s) - i) |-> WholeValue(s[i + x])]
                     whole == Digits(Append(pre, s[i].n \div 100)).v
                     frac == Digits(post)
                 IN  JNumber(FromDecimal((whole * 100 + (s[i].n % 100)) * (10 ^ frac.len)
                                             + frac.v, frac.len)))

\* a - b
JMinus(a, b) ==
    Once(<<ToNumber(a), ToNumber(b)>>, LAMBDA ab :
        IF ab[1].t = "number" /\ ab[2].t = "number"
        THEN JNumber(FSub(ab[1].num, ab[2].num))
        ELSE JNaN)

\* Object.entries(v) for an object v: the [category, amount] pairs
ObjectEntries(v) == [i \in 1..Len(v.keys) |-> <<v.keys[i], v.vals[i]>>]

\* Object.values(v) for v not undefined or null
ObjectValues(v) ==
    IF v.t \in {"object", "array"} THEN v.vals
    ELSE IF v.t = "string" THEN [i \in 1..Len(v.str) |-> JText(<<v.str[i]>>)]
    ELSE <<>>

HasKey(v, k) == v.t = "object" /\ \E i \in 1..Len(v.keys) : v.keys[i] = k
KeyIndex(ks, k) == CHOOSE i \in 1..Len(ks) : ks[i] = k

\* v.k : undefined when v has no property k.  (v is not undefined or null:
\* the callers model that TypeError themselves.)
Get(v, k) == IF HasKey(v, k) THEN v.vals[KeyIndex(v.keys, k)] ELSE JUndefined

\* property access on undefined or null throws a TypeError
IsNullish(v) == v.t \in {"undefined", "null"}

\* a decoder that folds the case of the keys it stores
LowerCase(k) == IF k = "Rent" THEN "rent" ELSE k
PutKeys_CaseFolded(ks, k) ==
    IF \E i \in 1..Len(ks) : ks[i] = LowerCase(k) THEN ks ELSE Append(ks, LowerCase(k))

\* obj[k] = v while parsing: a repeated key keeps its place and takes the
\* later value
PutKeys(ks, k) == IF \E i \in 1..Len(ks) : ks[i] = k THEN ks ELSE Append(ks, k)
\* a decoder that keeps the first value of a repeated key
PutVals_FirstWins(ks, vs, k, v) ==
    IF \E i \in 1..Len(ks) : ks[i] = k THEN vs ELSE Append(vs, v)

PutVals(ks, vs, k, v) ==
    IF \E i \in 1..Len(ks) : ks[i] = k
    THEN [vs EXCEPT ![KeyIndex(ks, k)] = v]
    ELSE Append(vs, v)

(***************************************************************************)
(* JSON.parse on a text: objects, arrays, string and number literals,      *)
(* white space between tokens.                                             *)
(***************************************************************************)
ParseFail == [ok |-> FALSE, v |-> JUndefined, rest |-> <<>>]
ParseOk(v, rest) == [ok |-> TRUE, v |-> v, rest |-> rest]

IsStringUnit(u) == u.k \in {"s", "q"}

RECURSIVE ParseValue(_)
RECURSIVE ParseMembers(_, _, _)
RECURSIVE ParseElements(_, _)

ParseValue(t0) ==
    Once(TrimStart(t0), LAMBDA t :
        IF t = <<>> THEN ParseFail
        ELSE IF t[1].k = "n" THEN ParseOk(JNumber(FromPence(t[1].n)), Tail(t))
        ELSE IF IsStringUnit(t[1]) THEN ParseOk(JString(t[1]), Tail(t))
        ELSE IF t[1] = Ch("{") THEN
            Once(TrimStart(Tail(t)), LAMBDA r :
                IF r # <<>> /\ r[1] = Ch("}") THEN ParseOk(JObject(<<>>, <<>>), Tail(r))
                ELSE ParseMembers(r, <<>>, <<>>))
        ELSE IF t[1] = Ch("[") THEN
            Once(TrimStart(Tail(t)), LAMBDA r :
                IF r # <<>> /\ r[1] = Ch("]") THEN ParseOk(JArray(<<>>), Tail(r))
                ELSE ParseElements(r, <<>>))
        ELSE ParseFail)

\* the members of an object after "{" or ",": a member must follow
ParseMembers(t0, ks0, vs0) ==
    Once(<<TrimStart(t0), ks0, vs0>>, LAMBDA a :
        LET t == a[1]
            ks == a[2]
            vs == a[3]
        IN  IF t = <<>> \/ ~IsStringUnit(t[1]) THEN ParseFail
            ELSE Once(TrimStart(Tail(t)), LAMBDA c :
                IF c = <<>> \/ c[1] # Ch(":") THEN ParseFail
                ELSE Once(ParseValue(Tail(c)), LAMBDA pv :
                    LET r == TrimStart(pv.rest)
                        nk == PutKeys(ks, t[1].s)
                        nv == PutVals(ks, vs, t[1].s, pv.v)
                    IN  IF ~pv.ok \/ r = <<>> THEN ParseFail
                        ELSE IF r[1] = Ch("}") THEN ParseOk(JObject(nk, nv), Tail(r))
                        ELSE IF r[1] = Ch(",") THEN ParseMembers(Tail(r), nk, nv)
                        ELSE ParseFail)))

\* the elements of an array after "[" or ",": an element must follow
ParseElements(t0, vs0) ==
    Once(<<ParseValue(t0), vs0>>, LAMBDA a :
        LET pv == a[1]
            vs == a[2]
            r == TrimStart(pv.rest)
        IN  IF ~pv.ok \/ r = <<>> THEN ParseFail
            ELSE IF r[1] = Ch("]") THEN ParseOk(JArray(Append(vs, pv.v)), Tail(r))
            ELSE IF r[1] = Ch(",") THEN ParseElements(Tail(r), Append(vs, pv.v))
            ELSE ParseFail)

\* JSON.parse(text): ok = FALSE is the SyntaxError
JSONparse(text) ==
    Once(ParseValue(text), LAMBDA pv :
        IF pv.ok /\ TrimStart(pv.rest) = <<>> THEN [ok |-> TRUE, v |-> pv.v]
        ELSE [ok |-> FALSE, v |-> JUndefined])

(***************************************************************************)
(* The answers of the model: the text of a statement summary, built from   *)
(* a description: which sections and sub-fields it has, its category       *)
(* mappings (sequences of [label, lit], lit a literal unit), how the text  *)
(* is damaged and how it is fenced.                                        *)
(***************************************************************************)
RECURSIVE JoinComma(_)
JoinComma(ts) ==
    IF ts = <<>> THEN <<>>
    ELSE IF Len(ts) = 1 THEN ts[1]
    ELSE ts[1] \o <<Ch(",")>> \o JoinComma(Tail(ts))

Member(key, valueText) == <<StrLit(key), Ch(":")>> \o valueText
ObjText(members) == <<Ch("{")>> \o JoinComma(members) \o <<Ch("}")>>
ArrText(elems) == <<Ch("[")>> \o JoinComma(elems) \o <<Ch("]")>>

MappingText(entries) ==
    ObjText([i \in 1..Len(entries) |-> Member(entries[i].label, <<entries[i].lit>>)])

Sections ==
    << "personalInformation", "summaryOfIncomeAndOutgoings",
       "generalSummaryAndFinancialHealthCommentary",
       "potentialRedFlagsAndConcerns", "recommendations" >>

SubFields == {"personalFields", "income", "outgoings", "commentaryFields", "listItems"}

AllParts == {Sections[i] : i \in 1..Len(Sections)} \cup SubFields

\* what an answer may hold besides: totals the model worked out itself, next
\* to the mappings, and a commentary that quotes another total
Extras == {"claimedTotals", "otherCommentary"}

PersonalText(p) ==
    IF "personalFields" \in p.has
    THEN ObjText(<< Member("name", <<StrLit("MRS CLAIRE V BYRON")>>),
                    Member("address", <<StrLit("89 FLIXTON ROAD")>>),
                    Member("accountNumber", <<StrLit("10185383")>>),
                    Member("sortCode", <<StrLit("16-33-22")>>),
                    Member("statementStartingBalance", <<NumLit(823365)>>),
                    Member("statementFinishingBalance", <<NumLit(617417)>>) >>)
    ELSE ObjText(<<>>)

IncomeOutgoingsText(p) ==
    ObjText(
        (IF "income" \in p.has THEN <<Member("income", MappingText(p.income))>> ELSE <<>>)
        \o (IF "outgoings" \in p.has
            THEN <<Member("outgoings", MappingText(p.outgoings))>> ELSE <<>>)
        \o (IF "claimedTotals" \in p.has
            THEN << Member("totalIncome", <<NumLit(941851)>>),
                    Member("totalOutgoings", <<NumLit(1016833)>>),
                    Member("netBalance", <<NumLit(100)>>) >>
            ELSE <<>>))

CommentaryText(p) ==
    IF "commentaryFields" \in p.has
    THEN ObjText(<<Member("overallFinancialHealth",
                          IF "otherCommentary" \in p.has
                          THEN <<StrLit("The total income of 9,418.51 is substantial.")>>
                          ELSE <<StrLit("Stable.")>>)>>)
    ELSE ObjText(<<>>)

ListText(p, item) ==
    IF "listItems" \in p.has THEN ArrText(<< <<StrLit(item)>> >>) ELSE ArrText(<<>>)

SectionText(p, name) ==
    IF name = "personalInformation" THEN PersonalText(p)
    ELSE IF name = "summaryOfIncomeAndOutgoings" THEN IncomeOutgoingsText(p)
    ELSE IF name = "generalSummaryAndFinancialHealthCommentary" THEN CommentaryText(p)
    ELSE IF name = "potentialRedFlagsAndConcerns" THEN ListText(p, "High gambling spend.")
    ELSE ListText(p, "Review subscriptions.")

WellFormedText(p) ==
    LET present == SelectSeq(Sections, LAMBDA name : name \in p.has)
    IN  ObjText([i \in 1..Len(present) |->
                    Member(present[i], <<Ch(" ")>> \o SectionText(p, present[i]))])

Prose == Chars(<<"s", "o", " ", "o", "n">>)

\* the text as the model sent it: cut short, with a comma too many, or with
\* prose after it
DamagedText(p) ==
    LET t == WellFormedText(p)
    IN  IF p.damage = "unterminated" THEN SubstringTo(t, Len(t) - 1) \o <<Ch(",")>>
        ELSE IF p.damage = "trailingComma"
            THEN SubstringTo(t, Len(t) - 1) \o <<Ch(","), Ch("}")>>
        ELSE IF p.damage = "prose" THEN t \o <<Ch("\n")>> \o Prose
        ELSE t

PayloadText(p) ==
    LET t == DamagedText(p)
    IN  IF p.wrapper = "json" THEN FenceJson \o <<Ch("\n")>> \o t \o <<Ch("\n")>> \o Fence
        ELSE IF p.wrapper = "plain" THEN Fence \o <<Ch("\n")>> \o t \o <<Ch("\n")>> \o Fence
        ELSE t

(***************************************************************************)
(* SummaryCard (summary-card.tsx)                                          *)
(***************************************************************************)
\* the cleaning parseSummaryData does itself: two tests in a row on the
\* opening fence, not one or the other
CleanInline(text) ==
    LET c0 == Trim(text)
        c1 == IF StartsWith(c0, FenceJson) THEN SubstringFrom(c0, FenceJsonLen) ELSE c0
        c2 == IF StartsWith(c1, Fence) THEN SubstringFrom(c1, FenceLen) ELSE c1
        c3 == IF EndsWith(c2, Fence) THEN SubstringTo(c2, Len(c2) - FenceLen) ELSE c2
    IN  Trim(c3)

\* the cleaning parseIdentificationDocument does itself, on documentText
CleanDocumentInline(documentText) ==
    LET c0 == Trim(documentText)
        c1 == IF StartsWith(c0, FenceJson) THEN SubstringFrom(c0, FenceJsonLen) ELSE c0
        c2 == IF StartsWith(c1, Fence) THEN SubstringFrom(c1, FenceLen) ELSE c1
        c3 == IF EndsWith(c2, Fence) THEN SubstringTo(c2, Len(c2) - FenceLen) ELSE c2
    IN  Trim(c3)

\* parseSummaryData: the parsed value, whatever its shape; null for an empty
\* text and for a text JSON.parse rejects
parseSummaryData(summaryText) ==
    IF summaryText = <<>> THEN JNull
    ELSE LET r == JSONparse(CleanInline(summaryText))
         IN  IF r.ok THEN r.v ELSE JNull

\* React throws on an object given as a child
ChildThrows(v) == v.t = "object"

\* renderPersonalInfo throws: personalInformation.name of undefined
renderPersonalInfoThrows(sd) ==
    LET pi == Get(sd, "personalInformation")
    IN  \/ IsNullish(pi)
        \/ \E f \in {"name", "address", "accountNumber", "sortCode"} :
               ChildThrows(Get(pi, f))

\* Object.values(m).reduce((sum, val) => sum + val) without the initial 0:
\* a TypeError on an empty mapping
RECURSIVE FoldPlus(_, _)
FoldPlus(acc, vs) == IF vs = <<>> THEN acc ELSE FoldPlus(JPlus(acc, vs[1]), Tail(vs))

SumValues_NoInitial(vs) ==
    IF vs = <<>> THEN [threw |-> TRUE, v |-> JUndefined]
    ELSE [threw |-> FALSE, v |-> FoldPlus(vs[1], Tail(vs))]

\* Object.values(m).reduce((sum, val) => sum + val, 0)
SumValues(vs) == [threw |-> FALSE, v |-> FoldPlus(JNumber(FZero), vs)]

\* an aggregation that takes the totals the answer states, where it states
\* them
renderIncomeAndOutgoings_TrustsModel(sd) ==
    LET s == Get(sd, "summaryOfIncomeAndOutgoings")
        inc == Get(s, "income")
        out == Get(s, "outgoings")
        ti == IF HasKey(s, "totalIncome") THEN Get(s, "totalIncome")
              ELSE SumValues(ObjectValues(inc)).v
        to == IF HasKey(s, "totalOutgoings") THEN Get(s, "totalOutgoings")
              ELSE SumValues(ObjectValues(out)).v
        threw == IsNullish(s) \/ IsNullish(inc) \/ IsNullish(out)
    IN  IF threw
        THEN [threw |-> TRUE, totalIncome |-> JUndefined, totalOutgoings |-> JUndefined,
              netBalance |-> JUndefined]
        ELSE [threw |-> FALSE, totalIncome |-> ti, totalOutgoings |-> to,
              netBalance |-> JMinus(ti, to)]

\* the totals of renderIncomeAndOutgoings, or that it threw
renderIncomeAndOutgoings(sd) ==
    LET s == Get(sd, "summaryOfIncomeAndOutgoings")
        inc == Get(s, "income")
        out == Get(s, "outgoings")
        ti == SumValues(ObjectValues(inc))
        to == SumValues(ObjectValues(out))
        threw == IsNullish(s) \/ IsNullish(inc) \/ IsNullish(out) \/ ti.threw \/ to.threw
    IN  IF threw
        THEN [threw |-> TRUE, totalIncome |-> JUndefined, totalOutgoings |-> JUndefined,
              netBalance |-> JUndefined]
        ELSE [threw |-> FALSE, totalIncome |-> ti.v, totalOutgoings |-> to.v,
              netBalance |-> JMinus(ti.v, to.v)]

\* renderFinancialHealthCommentary throws: Object.entries of undefined
renderCommentaryThrows(sd) ==
    LET c == Get(sd, "generalSummaryAndFinancialHealthCommentary")
    IN  IsNullish(c) \/ \E i \in 1..Len(ObjectValues(c)) : ChildThrows(ObjectValues(c)[i])

\* renderRedFlags / renderRecommendations throw: .length of undefined, .map
\* of a string
renderListThrows(sd, name) ==
    LET l == Get(sd, name)
    IN  \/ IsNullish(l)
        \/ l.t = "string" /\ l.str # <<>>
        \/ l.t = "array" /\ \E i \in 1..Len(l.vals) : ChildThrows(l.vals[i])

JobsIdle ==
    /\ clock = 0
    /\ jobs = <<>>
    /\ temp = <<>>
    /\ dirs = {}
    /\ outFiles = <<>>
    /\ rawFiles = <<>>

SanIdle == sIn = <<>> /\ sOut = <<>> /\ sOut2 = <<>> /\ sPc = "idle"

ClassifierIdle ==
    /\ file = [name |-> <<>>, type |-> ""]
    /\ documentType = ""
    /\ dispatched = ""
    /\ hPc = "idle"

PageIdle ==
    /\ leftChatMessages = <<>>
    /\ uploadedFiles = <<>>
    /\ isProcessing = FALSE
    /\ homeSummaryData = <<>>
    /\ drivingLicenseData = <<>>
    /\ processingMessageInterval = 0
    /\ timers = {}
    /\ runs = <<>>
    /\ nextId = 0

HomeIdle == ClassifierIdle /\ PageIdle

CardIdle ==
    /\ payload = [has |-> {}, income |-> <<>>, outgoings |-> <<>>,
                  damage |-> "none", wrapper |-> "none"]
    /\ summary = <<>>
    /\ summaryData = JNull
    /\ totalIncome = JUndefined
    /\ totalOutgoings = JUndefined
    /\ netBalance = JUndefined
    /\ cPc = "idle"

\* const summaryData = summary ? parseSummaryData(summary) : null
ParseSummary ==
    /\ cPc = "parse"
    /\ summaryData' = parseSummaryData(summary)
    /\ cPc' = IF Truthy(summaryData') THEN "personal" ELSE "unparsed"
    /\ UNCHANGED <<payload, summary, totalIncome, totalOutgoings, netBalance>>
    /\ UNCHANGED <<sanVars, jobVars, homeVars>>

RenderPersonalInfo ==
    /\ cPc = "personal"
    /\ cPc' = IF renderPersonalInfoThrows(summaryData) THEN "threwPersonal" ELSE "income"
    /\ UNCHANGED <<payload, summary, summaryData, totalIncome, totalOutgoings, netBalance>>
    /\ UNCHANGED <<sanVars, jobVars, homeVars>>

RenderIncomeAndOutgoings ==
    /\ cPc = "income"
    /\ LET r == renderIncomeAndOutgoings(summaryData)
       IN  /\ totalIncome' = r.totalIncome
           /\ totalOutgoings' = r.totalOutgoings
           /\ netBalance' = r.netBalance
           /\ cPc' = IF r.threw THEN "threwIncome" ELSE "commentary"
    /\ UNCHANGED <<payload, summary, summaryData>>
    /\ UNCHANGED <<sanVars, jobVars, homeVars>>

RenderFinancialHealthCommentary ==
    /\ cPc = "commentary"
    /\ cPc' = IF renderCommentaryThrows(summaryData) THEN "threwCommentary" ELSE "redFlags"
    /\ UNCHANGED <<payload, summary, summaryData, totalIncome, totalOutgoings, netBalance>>
    /\ UNCHANGED <<sanVars, jobVars, homeVars>>

RenderRedFlags ==
    /\ cPc = "redFlags"
    /\ cPc' = IF renderListThrows(summaryData, "potentialRedFlagsAndConcerns")
              THEN "threwRedFlags" ELSE "recommendations"
    /\ UNCHANGED <<payload, summary, summaryData, totalIncome, totalOutgoings, netBalance>>
    /\ UNCHANGED <<sanVars, jobVars, homeVars>>

RenderRecommendations ==
    /\ cPc = "recommendations"
    /\ cPc' = IF renderListThrows(summaryData, "recommendations")
              THEN "threwRecommendations" ELSE "rendered"
    /\ UNCHANGED <<payload, summary, summaryData, totalIncome, totalOutgoings, netBalance>>
    /\ UNCHANGED <<sanVars, jobVars, homeVars>>

(***************************************************************************)
(* The summaries SummaryCard is given                                      *)
(***************************************************************************)
MaxIncome == 3
MaxOutgoings == 1

\* amounts in pence
Amounts == {10, 20, 30}

Labels ==
    << "Bank Transfer", "Essential Home - Rent/Mortgage", "Unknown", "Gambling",
       "Cash Withdrawal", "Essential Household" >>

\* a mapping with the amounts ps, in this order, under the first labels
Mapping(ps) == [i \in 1..Len(ps) |-> [label |-> Labels[i], lit |-> NumLit(ps[i])]]

RECURSIVE AmountSeqs(_)
AmountSeqs(n) ==
    IF n = 0 THEN { <<>> }
    ELSE LET S == AmountSeqs(n - 1)
         IN  S \cup { Append(q, a) : q \in S, a \in Amounts }

WellFormed(inc, out) ==
    [has |-> AllParts, income |-> inc, outgoings |-> out,
     damage |-> "none", wrapper |-> "none"]

\* the scenario of the specification's section 8
ScenarioIncome ==
    << [label |-> "Bank Transfer", lit |-> NumLit(482500)],
       [label |-> "Essential Home - Rent/Mortgage", lit |-> NumLit(125000)] >>
ScenarioOutgoings ==
    << [label |-> "Unknown", lit |-> NumLit(390345)],
       [label |-> "Bank Transfer", lit |-> NumLit(134000)] >>
Scenario == WellFormed(ScenarioIncome, ScenarioOutgoings)

\* "Salary": 1250.00, "Bonus": 0.33
Salary ==
    WellFormed(<< [label |-> "Salary", lit |-> NumLit(125000)],
                  [label |-> "Bonus", lit |-> NumLit(33)] >>, <<>>)

\* labels that differ in case and in spacing only, and one no enumeration
\* would hold
Variants ==
    WellFormed(<< [label |-> "Rent", lit |-> NumLit(70000)],
                  [label |-> "RENT", lit |-> NumLit(100)],
                  [label |-> "Rent ", lit |-> NumLit(200)] >>,
               << [label |-> "Llama hire (2 days)", lit |-> NumLit(4550)] >>)

\* well-formed payloads with every mapping within the bounds
Amounted ==
    { WellFormed(Mapping(i), Mapping(o)) :
        i \in AmountSeqs(MaxIncome), o \in AmountSeqs(MaxOutgoings) }

\* payloads that lack one section or one kind of sub-field, damaged ones,
\* fenced ones
Shaped ==
    { [has |-> AllParts \ {x}, income |-> Mapping(<<10, 20>>), outgoings |-> Mapping(<<30>>),
       damage |-> d, wrapper |-> w] :
        x \in AllParts \cup {"none"},
        d \in {"none", "unterminated", "trailingComma", "prose"},
        w \in {"none", "json", "plain"} }

\* amounts as numbers and as strings that hold the decimal text:
\* 3.00, 0.10 and "12.50"
Lits == {NumLit(300), NumLit(10), NumStrLit(1250)}

LitSeqs(n) == UNION { [1..k -> Lits] : k \in 0..n }

LitMapping(ls) == [i \in 1..Len(ls) |-> [label |-> Labels[i], lit |-> ls[i]]]

\* well-formed payloads some of whose amounts are numeric strings
Quoted ==
    { WellFormed(LitMapping(i), LitMapping(o)) : i \in LitSeqs(2), o \in LitSeqs(1) }

\* labels that occur twice in one mapping, as in the sample answer: "Bank
\* Transfer" in income, "Essential Household" in outgoings
Duplicated ==
    WellFormed(<< [label |-> "Gambling", lit |-> NumLit(71685)],
                  [label |-> "Bank Transfer", lit |-> NumLit(79500)],
                  [label |-> "Unknown", lit |-> NumLit(762985)],
                  [label |-> "Bank Transfer", lit |-> NumLit(10000)] >>,
               << [label |-> "Essential Household", lit |-> NumLit(900)],
                  [label |-> "Cash Withdrawal", lit |-> NumLit(19438)],
                  [label |-> "Essential Household", lit |-> NumLit(900)] >>)

\* payloads that state totals of their own, or a commentary of their own,
\* or both
Fabricated ==
    { [p EXCEPT !.has = AllParts \cup x] :
        p \in {Scenario, WellFormed(Mapping(<<10, 20>>), Mapping(<<30>>))},
        x \in (SUBSET Extras) \ { {} } }

Payloads == Amounted \cup Shaped \cup Quoted \cup Fabricated
                \cup {Scenario, Salary, Variants, Duplicated}

CardInit ==
    /\ payload \in Payloads
    /\ summary = PayloadText(payload)
    /\ summaryData = JNull
    /\ totalIncome = JUndefined
    /\ totalOutgoings = JUndefined
    /\ netBalance = JUndefined
    /\ cPc = "parse"
    /\ SanIdle
    /\ JobsIdle
    /\ HomeIdle

CardNext ==
    \/ ParseSummary
    \/ RenderPersonalInfo
    \/ RenderIncomeAndOutgoings
    \/ RenderFinancialHealthCommentary
    \/ RenderRedFlags
    \/ RenderRecommendations

SpecCard == CardInit /\ [][CardNext]_vars

(***************************************************************************)
(* Inputs of the sanitizer: every concatenation of at most MaxPieces       *)
(* pieces.                                                                 *)
(***************************************************************************)
MaxPieces == 4

Pieces ==
    { Fence, FenceJson, Chars(<<"j", "s">>), Chars(<<BackTick>>),
      Chars(<<" ">>), Chars(<<"\n">>), Chars(<<"{">>), Chars(<<"}">>) }

RECURSIVE TextsUpTo(_)
TextsUpTo(n) ==
    IF n = 0 THEN { <<>> }
    ELSE LET T == TextsUpTo(n - 1)
         IN  T \cup { t \o p : t \in T, p \in Pieces }

(***************************************************************************)
(* The sanitizer applied to an input, and again to its own output.         *)
(***************************************************************************)
SanInit ==
    /\ sIn \in TextsUpTo(MaxPieces)
    /\ sOut = <<>>
    /\ sOut2 = <<>>
    /\ sPc = "start"
    /\ CardIdle
    /\ JobsIdle
    /\ HomeIdle

Clean ==
    /\ sPc = "start"
    /\ sOut' = cleanJsonString(sIn)
    /\ sPc' = "cleaned"
    /\ UNCHANGED <<sIn, sOut2>>
    /\ UNCHANGED <<cardVars, jobVars, homeVars>>

Reclean ==
    /\ sPc = "cleaned"
    /\ sOut2' = cleanJsonString(sOut)
    /\ sPc' = "recleaned"
    /\ UNCHANGED <<sIn, sOut>>
    /\ UNCHANGED <<cardVars, jobVars, homeVars>>

SanNext == Clean \/ Reclean

SpecSanitizer == SanInit /\ [][SanNext]_vars

(***************************************************************************)
(* The route handlers: POST of /api/process-pdf and of the passport route. *)
(* Both run in one server process, with the same TEMP_DIR and OUTPUT_DIR   *)
(* (process.cwd()/temp, process.cwd()/output).  A handler runs until it    *)
(* awaits; handlers of other requests run in between.                      *)
(***************************************************************************)
MaxJobs == 2
MaxClock == 2

Job == 1..MaxJobs

Routes == {"process-pdf", "passport"}

\* the uploads: name, name.toLowerCase()'s extension, declared type
NoFile == [present |-> FALSE, name |-> "", ext |-> "", type |-> ""]
Files ==
    { NoFile,
      [present |-> TRUE, name |-> "statement.pdf", ext |-> ".pdf", type |-> "application/pdf"],
      [present |-> TRUE, name |-> "scan.jpg", ext |-> ".jpg", type |-> "image/jpeg"],
      [present |-> TRUE, name |-> "notes.txt", ext |-> ".txt", type |-> "text/plain"] }

NoResponse ==
    [status |-> 0, success |-> FALSE, summary |-> <<>>, result |-> JUndefined, error |-> ""]
ErrorResponse(status, error) ==
    [status |-> status, success |-> FALSE, summary |-> <<>>, result |-> JUndefined,
     error |-> error]
SummaryResponse(summaryText) ==
    [status |-> 200, success |-> TRUE, summary |-> summaryText, result |-> JUndefined,
     error |-> ""]
ResultResponse(v) ==
    [status |-> 200, success |-> TRUE, summary |-> <<>>, result |-> v, error |-> ""]

\* steps: what the handler has done so far, in the order of its statements:
\* "write" (fs.writeFileSync of the input), "invoke" (execPromise called),
\* "read" (fs.readFileSync of the result), "sanitize" (cleanJsonString),
\* "decode" (JSON.parse)
IdleJob ==
    [route |-> "", file |-> NoFile, pc |-> "idle", timestamp |-> 0, exit |-> 0,
     read |-> <<>>, steps |-> <<>>, response |-> NoResponse]

\* what the statement script writes for submission j: a fenced summary,
\* well-formed or damaged, or prose
StatementAnswer(j, d) ==
    PayloadText([has |-> AllParts, income |-> Mapping(<<10 * j>>), outgoings |-> <<>>,
                 damage |-> d, wrapper |-> "json"])
StatementAnswers(j) ==
    { StatementAnswer(j, d) : d \in {"none", "unterminated", "trailingComma"} }
        \cup { <<ProseRun("Sorry")>> }

\* what the passport script writes: an object, an object inside prose, an
\* object with an object in it, prose
IdentityObject(j) ==
    ObjText(<< Member("surname", <<StrLit("BYRON")>>),
               Member("passportNumber", <<NumStrLit(j)>>) >>)
NestedIdentityObject(j) ==
    ObjText(<< Member("name", ObjText(<<Member("surname", <<StrLit("BYRON")>>)>>)),
               Member("passportNumber", <<NumStrLit(j)>>) >>)
\* a text with no brace in it that JSON.parse accepts
IdentityList(j) == ArrText(<< <<StrLit("BYRON")>>, <<NumStrLit(j)>> >>)
\* prose, the object, prose
Embedded(obj) == <<ProseRun("Here"), Ch(" ")>> \o obj \o <<Ch(" "), ProseRun("Done")>>
PassportAnswers(j) ==
    { IdentityObject(j),
      Embedded(IdentityObject(j)),
      NestedIdentityObject(j),
      Embedded(NestedIdentityObject(j)),
      IdentityList(j),
      <<ProseRun("Sorry")>> }

Answers(j, route) == IF route = "process-pdf" THEN StatementAnswers(j) ELSE PassportAnswers(j)
ResultName(route) == IF route = "process-pdf" THEN "summary.txt" ELSE "passport_data.json"

JobsInit ==
    /\ clock = 1
    /\ jobs = [j \in Job |-> IdleJob]
    /\ temp = <<>>
    /\ dirs = {}
    /\ outFiles = <<>>
    /\ rawFiles = <<>>
    /\ SanIdle
    /\ CardIdle
    /\ HomeIdle

\* time passes
Tick ==
    /\ clock < MaxClock
    /\ clock' = clock + 1
    /\ UNCHANGED <<jobs, temp, dirs, outFiles, rawFiles>>
    /\ UNCHANGED <<sanVars, cardVars, homeVars>>

\* a request reaches a route
Submit(j) ==
    /\ jobs[j].pc = "idle"
    /\ \E r \in Routes, f \in Files :
           jobs' = [jobs EXCEPT ![j] = [@ EXCEPT !.route = r, !.file = f, !.pc = "received"]]
    /\ UNCHANGED <<clock, temp, dirs, outFiles, rawFiles>>
    /\ UNCHANGED <<sanVars, cardVars, homeVars>>

\* file.name.toLowerCase().endsWith('.pdf')
IsPdfName(f) == f.ext = ".pdf"

\* fileType.startsWith('image/') || fileName.endsWith('.jpg') || ...
IsImage(f) ==
    f.type \in {"image/jpeg", "image/png"} \/ f.ext \in {".jpg", ".jpeg", ".png"}

\* POST up to "await file.arrayBuffer()": the checks, Date.now()
Allocate(j, accepted, refusal) ==
    /\ jobs[j].pc = "received"
    /\ jobs' = [jobs EXCEPT ![j] =
           IF ~jobs[j].file.present
           THEN [@ EXCEPT !.pc = "done", !.response = ErrorResponse(400, "No file provided")]
           ELSE IF ~accepted
           THEN [@ EXCEPT !.pc = "done", !.response = ErrorResponse(400, refusal)]
           ELSE [@ EXCEPT !.pc = "buffering", !.timestamp = clock]]
    /\ UNCHANGED <<clock, temp, dirs, outFiles, rawFiles>>
    /\ UNCHANGED <<sanVars, cardVars, homeVars>>

PdfAllocate(j) ==
    /\ jobs[j].route = "process-pdf"
    /\ Allocate(j, IsPdfName(jobs[j].file), "Only PDF files are supported")

PassportAllocate(j) ==
    /\ jobs[j].route = "passport"
    /\ Allocate(j, IsImage(jobs[j].file),
                "Only image files are supported for passport processing")

FilePath(job) == <<job.timestamp, job.file.name>>

\* POST from fs.writeFileSync(filePath, buffer) to "await execPromise(...)"
WriteInput(j) ==
    /\ jobs[j].pc = "buffering"
    /\ temp' = (FilePath(jobs[j]) :> j) @@ temp
    /\ dirs' = dirs \cup {jobs[j].timestamp}
    /\ jobs' = [jobs EXCEPT ![j] = [@ EXCEPT !.pc = "running",
                                            !.steps = @ \o <<"write", "invoke">>]]
    /\ UNCHANGED <<clock, outFiles, rawFiles>>
    /\ UNCHANGED <<sanVars, cardVars, homeVars>>

PdfWriteInput(j) == jobs[j].route = "process-pdf" /\ WriteInput(j)

PassportWriteInput(j) == jobs[j].route = "passport" /\ WriteInput(j)

\* the python script ends: it wrote its result file or not, and exits with
\* 0 or not
ScriptExit(j) ==
    /\ jobs[j].pc = "running"
    /\ \E code \in {0, 1} :
           jobs' = [jobs EXCEPT ![j] = [@ EXCEPT !.pc = "exited", !.exit = code]]
    /\ \/ UNCHANGED outFiles
       \/ \E a \in Answers(j, jobs[j].route) :
              outFiles' = (<<jobs[j].timestamp, ResultName(jobs[j].route)>> :> a) @@ outFiles
    /\ UNCHANGED <<clock, temp, dirs, rawFiles>>
    /\ UNCHANGED <<sanVars, cardVars, homeVars>>

\* fs.unlinkSync(filePath) throws when the file is not there
UnlinkThrows(job) == FilePath(job) \notin DOMAIN temp
Unlink(job) == [q \in (DOMAIN temp) \ {FilePath(job)} |-> temp[q]]

\* the summary the process-pdf route returns for the text of summary.txt
ReturnedSummary(text) ==
    LET cleanedSummary == cleanJsonString(text)
    IN  IF JSONparse(cleanedSummary).ok THEN cleanedSummary ELSE text

NotFoundText == <<ProseRun("Summary file not found. Processing may have failed.")>>

\* POST of process-pdf after "await execPromise(...)"
PdfFinish(j) ==
    LET job == jobs[j]
        summaryPath == <<job.timestamp, "summary.txt">>
        exists == summaryPath \in DOMAIN outFiles
    IN  /\ job.route = "process-pdf"
        /\ job.pc = "exited"
        /\ IF job.exit # 0
           THEN /\ jobs' = [jobs EXCEPT ![j] = [@ EXCEPT !.pc = "done",
                                !.response = ErrorResponse(500, "Failed to process PDF")]]
                /\ UNCHANGED <<temp, rawFiles>>
           ELSE /\ rawFiles' = IF exists
                               THEN (job.timestamp :> outFiles[summaryPath]) @@ rawFiles
                               ELSE rawFiles
                /\ IF UnlinkThrows(job)
                   THEN /\ jobs' = [jobs EXCEPT ![j] = [@ EXCEPT !.pc = "done",
                                !.read = IF exists THEN outFiles[summaryPath] ELSE <<>>,
                                !.steps = @ \o (IF exists
                                                THEN <<"read", "sanitize", "decode">>
                                                ELSE <<>>),
                                !.response = ErrorResponse(500, "Failed to process PDF")]]
                        /\ UNCHANGED temp
                   ELSE /\ jobs' = [jobs EXCEPT ![j] = [@ EXCEPT !.pc = "done",
                                !.read = IF exists THEN outFiles[summaryPath] ELSE <<>>,
                                !.steps = @ \o (IF exists
                                                THEN <<"read", "sanitize", "decode">>
                                                ELSE <<>>),
                                !.response = SummaryResponse(
                                    IF exists THEN ReturnedSummary(outFiles[summaryPath])
                                    ELSE NotFoundText)]]
                        /\ temp' = Unlink(job)
        /\ UNCHANGED <<clock, dirs, outFiles>>
        /\ UNCHANGED <<sanVars, cardVars, homeVars>>

\* resultData.indexOf(c): 0-based, -1 when c does not occur
IndexOf(t, c) ==
    IF \E i \in 1..Len(t) : t[i] = Ch(c)
    THEN (CHOOSE i \in 1..Len(t) : t[i] = Ch(c) /\ \A k \in 1..(i - 1) : t[k] # Ch(c)) - 1
    ELSE 0 - 1

\* the passport route's decoding of resultData: the text from the first
\* "{" to the first "}", or the whole text
ParsePassport(resultData) ==
    LET jsonStart == IndexOf(resultData, "{")
        jsonEnd == IndexOf(resultData, "}") + 1
    IN  IF jsonStart >= 0 /\ jsonEnd > jsonStart
        THEN JSONparse(SubSeq(resultData, jsonStart + 1, jsonEnd))
        ELSE JSONparse(resultData)

\* POST of the passport route after "await execPromise(...)"
PassportFinish(j) ==
    LET job == jobs[j]
        resultPath == <<job.timestamp, "passport_data.json">>
        exists == resultPath \in DOMAIN outFiles
        parsed == ParsePassport(outFiles[resultPath])
    IN  /\ job.route = "passport"
        /\ job.pc = "exited"
        /\ IF job.exit # 0
           THEN /\ jobs' = [jobs EXCEPT ![j] = [@ EXCEPT !.pc = "done",
                                !.response = ErrorResponse(500, "Failed to process passport image")]]
                /\ UNCHANGED temp
           ELSE IF ~exists
           THEN /\ jobs' = [jobs EXCEPT ![j] = [@ EXCEPT !.pc = "done",
                                !.response = ErrorResponse(500,
                                    "Failed to process passport image. Result file not found.")]]
                /\ UNCHANGED temp
           ELSE IF ~parsed.ok \/ IsNullish(parsed.v)
           THEN /\ jobs' = [jobs EXCEPT ![j] = [@ EXCEPT !.pc = "done",
                                !.read = outFiles[resultPath],
                                !.steps = @ \o <<"read", "decode">>,
                                !.response = ErrorResponse(500, "Failed to parse passport data")]]
                /\ UNCHANGED temp
           ELSE IF UnlinkThrows(job)
           THEN /\ jobs' = [jobs EXCEPT ![j] = [@ EXCEPT !.pc = "done",
                                !.read = outFiles[resultPath],
                                !.steps = @ \o <<"read", "decode">>,
                                !.response = ErrorResponse(500, "Failed to process passport image")]]
                /\ UNCHANGED temp
           ELSE /\ jobs' = [jobs EXCEPT ![j] = [@ EXCEPT !.pc = "done",
                                !.read = outFiles[resultPath],
                                !.steps = @ \o <<"read", "decode">>,
                                !.response = ResultResponse(parsed.v)]]
                /\ temp' = Unlink(job)
        /\ UNCHANGED <<clock, dirs, outFiles, rawFiles>>
        /\ UNCHANGED <<sanVars, cardVars, homeVars>>

Next ==
    \/ Tick
    \/ \E j \in Job : Submit(j)
    \/ \E j \in Job : PdfAllocate(j)
    \/ \E j \in Job : PdfWriteInput(j)
    \/ \E j \in Job : PdfFinish(j)
    \/ \E j \in Job : PassportAllocate(j)
    \/ \E j \in Job : PassportWriteInput(j)
    \/ \E j \in Job : PassportFinish(j)
    \/ \E j \in Job : ScriptExit(j)

Init == JobsInit

Spec == Init /\ [][Next]_vars

\* The event loop runs every handler that can go on: a handler that is not
\* waiting for its script takes its next step.  Nothing makes a script end,
\* a request arrive or the clock advance.
HandlerSteps(j) ==
    \/ PdfAllocate(j) \/ PdfWriteInput(j) \/ PdfFinish(j)
    \/ PassportAllocate(j) \/ PassportWriteInput(j) \/ PassportFinish(j)

SpecLive == Init /\ [][Next]_vars /\ \A j \in Job : WF_vars(HandlerSteps(j))

(***************************************************************************)
(* The page (Home): what it does with an uploaded file.  A file name is a  *)
(* sequence of pieces, the extension last ("" when the name has none); a   *)
(* piece is a word of the name, and no keyword runs across two pieces.     *)
(***************************************************************************)
MaxStems == 2

Words ==
    {"statement", "Statement", "licence", "license", "dl", "bundle", "passport", "scan"}
Extensions == {".pdf", ".PDF", ".jpg", ".jpeg", ".png", ".txt", ""}
Types == {"application/pdf", "image/jpeg", "image/png", "text/plain", ""}

RECURSIVE Stems(_)
Stems(n) ==
    IF n = 0 THEN { <<>> }
    ELSE LET S == Stems(n - 1)
         IN  S \cup { Append(q, w) : q \in S, w \in Words }

Uploads ==
    { [name |-> Append(q, e), type |-> t] :
        q \in Stems(MaxStems) \ { <<>> }, e \in Extensions, t \in Types }

\* piece.toLowerCase()
ToLowerCase(piece) ==
    IF piece = "Statement" THEN "statement"
    ELSE IF piece = ".PDF" THEN ".pdf"
    ELSE piece

\* piece.includes(w) for a lower-case piece: the piece is w, or holds it
PieceIncludes(piece, w) == piece = w \/ (piece = "bundle" /\ w = "dl")

\* file.name.toLowerCase()
FileName(f) == [i \in 1..Len(f.name) |-> ToLowerCase(f.name[i])]

\* fileName.endsWith(ext), ext one of the extensions
NameEndsWith(fileName, ext) == fileName # <<>> /\ fileName[Len(fileName)] = ext

\* fileName.includes(w), w one of the keywords
NameIncludes(fileName, w) == \E i \in 1..Len(fileName) : PieceIncludes(fileName[i], w)

\* fileType.includes('image/')
TypeIncludesImage(fileType) == fileType \in {"image/jpeg", "image/png"}

\* fileType.includes('image/') || fileName.endsWith('.jpg') || ... '.jpeg' || ... '.png'
LooksLikeImage(fileName, fileType) ==
    \/ TypeIncludesImage(fileType)
    \/ NameEndsWith(fileName, ".jpg")
    \/ NameEndsWith(fileName, ".jpeg")
    \/ NameEndsWith(fileName, ".png")

\* fileName.includes('licence') || ... 'license' || ... 'dl'
HasLicenceKeyword(fileName) ==
    \/ NameIncludes(fileName, "licence")
    \/ NameIncludes(fileName, "license")
    \/ NameIncludes(fileName, "dl")

\* a dispatch that knows images by their keywords only
Dispatch_KeywordsOnly(f) ==
    LET fileName == FileName(f)
        fileType == f.type
    IN  IF NameEndsWith(fileName, ".pdf") THEN "statement"
        ELSE IF LooksLikeImage(fileName, fileType) /\ HasLicenceKeyword(fileName)
        THEN "driving_license"
        ELSE "unsupported"

\* the branch the loop body of handleAnalyzeDocuments takes for a file:
\* processStatementPDF, processDrivingLicense, or the message that the file
\* type is unsupported
Dispatch(f) ==
    LET fileName == FileName(f)
        fileType == f.type
    IN  IF NameEndsWith(fileName, ".pdf") /\ NameIncludes(fileName, "statement")
        THEN "statement"
        ELSE IF LooksLikeImage(fileName, fileType) /\ HasLicenceKeyword(fileName)
        THEN "driving_license"
        ELSE IF NameEndsWith(fileName, ".pdf") THEN "statement"
        ELSE IF LooksLikeImage(fileName, fileType) THEN "driving_license"
        ELSE "unsupported"

\* what detectAndNotifyDocumentType returns
detectAndNotifyDocumentType(f) ==
    LET fileName == FileName(f)
        fileType == f.type
    IN  IF NameEndsWith(fileName, ".pdf") /\ NameIncludes(fileName, "statement")
        THEN "Bank Statement"
        ELSE IF NameEndsWith(fileName, ".pdf") THEN "PDF Document"
        ELSE IF LooksLikeImage(fileName, fileType) /\ HasLicenceKeyword(fileName)
        THEN "Driving License"
        ELSE IF LooksLikeImage(fileName, fileType) THEN "Image Document"
        ELSE "Unknown document"

ClassifierInit ==
    /\ file \in Uploads
    /\ documentType = ""
    /\ dispatched = ""
    /\ hPc = "uploading"
    /\ PageIdle
    /\ SanIdle
    /\ CardIdle
    /\ JobsIdle

\* handleFileUpload(file)
HandleFileUpload ==
    /\ hPc = "uploading"
    /\ documentType' = detectAndNotifyDocumentType(file)
    /\ hPc' = "uploaded"
    /\ UNCHANGED <<file, dispatched>>
    /\ UNCHANGED <<sanVars, cardVars, jobVars, pageVars>>

\* one turn of the loop of handleAnalyzeDocuments, up to the await or the
\* message
AnalyzeFile ==
    /\ hPc = "uploaded"
    /\ dispatched' = Dispatch(file)
    /\ hPc' = "analysed"
    /\ UNCHANGED <<file, documentType>>
    /\ UNCHANGED <<sanVars, cardVars, jobVars, pageVars>>

ClassifierNext == HandleFileUpload \/ AnalyzeFile

SpecClassifier == ClassifierInit /\ [][ClassifierNext]_vars

(***************************************************************************)
(* The page (Home) as a whole: its state and its handlers.  A handler runs *)
(* until it awaits; React then commits the state it set, and runs the      *)
(* cleanup of the effect on processingMessageInterval when that state has  *)
(* changed.  A handler sees the state of the render it was made in: the    *)
(* call of handleAnalyzeDocuments keeps, over its awaits, the              *)
(* uploadedFiles and the processingMessageInterval of the click.           *)
(***************************************************************************)
MaxIds == 7
MaxRuns == 2

\* the files the user picks: a statement, a licence photo, a text file
PageFiles ==
    { [name |-> <<"statement", ".pdf">>, type |-> "application/pdf"],
      [name |-> <<"licence", ".jpg">>, type |-> "image/jpeg"],
      [name |-> <<"scan", ".txt">>, type |-> "text/plain"] }

\* a ChatMessage; the content is its kind and the file name it mentions
ChatMessage(id, kind, name, isUser, flag) ==
    [id |-> id, kind |-> kind, name |-> name, isUser |-> isUser, isProcessing |-> flag]

Greeting == ChatMessage(1, "Hello, how can I help you", <<>>, FALSE, FALSE)

\* What a handler has set so far: the chat (every setLeftChatMessages is an
\* update of the previous value), processingMessageInterval, the intervals
\* that run, the next fresh id.
PageState ==
    [msgs |-> leftChatMessages, pmi |-> processingMessageInterval, timers |-> timers,
     next |-> nextId]

\* setLeftChatMessages(prev => [...prev, { id: generateUniqueId(), ... }])
AppendMessage(st, kind, name, isUser) ==
    [st EXCEPT !.msgs = Append(@, ChatMessage(st.next, kind, name, isUser, FALSE)),
               !.next = @ + 1]

\* clearInterval(id)
ClearInterval(ts, id) == { t \in ts : t.id # id }

\* startProcessingMessages, processingMessageInterval being the value the
\* handler captured
startProcessingMessages(st, captured) ==
    LET firstMessageId == st.next
        interval == st.next + 1
        running == IF captured # 0 THEN ClearInterval(st.timers, captured) ELSE st.timers
    IN  [st EXCEPT
            !.msgs = Append(@, ChatMessage(firstMessageId, "Extracting data", <<>>,
                                           FALSE, TRUE)),
            !.timers = running \cup {[id |-> interval, firstMessageId |-> firstMessageId]},
            !.pmi = interval,
            !.next = @ + 2]

\* the update of stopProcessingMessages: the flag of the last message
Unflag(msgs) ==
    IF msgs # <<>> /\ msgs[Len(msgs)].isProcessing
    THEN [msgs EXCEPT ![Len(msgs)].isProcessing = FALSE]
    ELSE msgs

\* stopProcessingMessages, processingMessageInterval being the value the
\* handler captured
stopProcessingMessages(st, captured) ==
    IF captured # 0
    THEN [st EXCEPT !.timers = ClearInterval(@, captured),
                    !.pmi = 0,
                    !.msgs = Unflag(@)]
    ELSE st

\* the for loop of handleAnalyzeDocuments from file run.i on, up to the next
\* await or to the end of the try block.  run.log takes down what the call
\* does: a request for a file, the message for an unsupported file, the
\* message that the analysis is complete, the error message.
RECURSIVE ProcessFiles(_, _)
ProcessFiles(st, run) ==
    IF run.i > Len(run.files)
    THEN [st |-> AppendMessage(stopProcessingMessages(st, run.interval),
                               "Analysis complete!", <<>>, FALSE),
          run |-> [run EXCEPT !.pc = "ended", !.log = Append(@, <<"complete", 0>>)]]
    ELSE IF Dispatch(run.files[run.i]) = "unsupported"
    THEN ProcessFiles(AppendMessage(st, "Unsupported file type", run.files[run.i].name, FALSE),
                      [run EXCEPT !.i = @ + 1, !.log = Append(@, <<"unsupported", run.i>>)])
    ELSE [st |-> st,
          run |-> [run EXCEPT !.pc = "awaiting", !.log = Append(@, <<"fetch", run.i>>)]]

\* the catch block of handleAnalyzeDocuments
CatchError(st, run) ==
    [st |-> AppendMessage(stopProcessingMessages(st, run.interval), "Error", <<>>, FALSE),
     run |-> [run EXCEPT !.pc = "ended", !.log = Append(@, <<"error", run.i>>)]]

\* a loop that goes on with the next file after a failed request
AfterResponse_GoesOn(st, run, ok) ==
    IF ok THEN ProcessFiles(st, [run EXCEPT !.i = @ + 1])
    ELSE ProcessFiles(AppendMessage(st, "Error", <<>>, FALSE),
                      [run EXCEPT !.i = @ + 1, !.log = Append(@, <<"error", run.i>>)])

\* handleAnalyzeDocuments after the await of processStatementPDF or
\* processDrivingLicense: ok is response.ok; a request that fails, a body
\* that is not JSON and a response that is not ok all throw
AfterResponse(st, run, ok) ==
    IF ok THEN ProcessFiles(st, [run EXCEPT !.i = @ + 1])
    ELSE CatchError(st, run)

\* the cleanup of useEffect(..., [processingMessageInterval]): when the
\* state has changed, the interval of the render before is cleared
EffectCleanup(st) ==
    IF st.pmi # processingMessageInterval /\ processingMessageInterval # 0
    THEN ClearInterval(st.timers, processingMessageInterval)
    ELSE st.timers

\* React commits what the handler has set
Commit(st) ==
    /\ leftChatMessages' = st.msgs
    /\ processingMessageInterval' = st.pmi
    /\ timers' = EffectCleanup(st)
    /\ nextId' = st.next

PageInit ==
    /\ leftChatMessages = <<Greeting>>
    /\ uploadedFiles = <<>>
    /\ isProcessing = FALSE
    /\ homeSummaryData = <<>>
    /\ drivingLicenseData = <<>>
    /\ processingMessageInterval = 0
    /\ timers = {}
    /\ runs = <<>>
    /\ nextId = 2
    /\ ClassifierIdle
    /\ SanIdle
    /\ CardIdle
    /\ JobsIdle

\* handleFileUpload(file)
UploadFile ==
    /\ nextId <= MaxIds
    /\ \E f \in PageFiles :
           /\ uploadedFiles' = Append(uploadedFiles, f)
           /\ Commit(AppendMessage(PageState, "detected", f.name, FALSE))
    /\ UNCHANGED <<isProcessing, homeSummaryData, drivingLicenseData, runs>>
    /\ UNCHANGED <<file, documentType, dispatched, hPc>>
    /\ UNCHANGED <<sanVars, cardVars, jobVars>>

\* handleMultipleFilesUpload(files), two files picked
UploadFiles ==
    /\ nextId <= MaxIds
    /\ \E f \in PageFiles, g \in PageFiles :
           /\ f # g
           /\ uploadedFiles' = uploadedFiles \o <<f, g>>
           /\ Commit(AppendMessage(
                  AppendMessage(AppendMessage(PageState, "detected", f.name, FALSE),
                                "detected", g.name, FALSE),
                  "documents uploaded", <<>>, FALSE))
    /\ UNCHANGED <<isProcessing, homeSummaryData, drivingLicenseData, runs>>
    /\ UNCHANGED <<file, documentType, dispatched, hPc>>
    /\ UNCHANGED <<sanVars, cardVars, jobVars>>

\* handleSendMessage(message)
SendMessage ==
    /\ nextId <= MaxIds
    /\ Commit(AppendMessage(PageState, "user", <<>>, TRUE))
    /\ UNCHANGED <<uploadedFiles, isProcessing, homeSummaryData, drivingLicenseData, runs>>
    /\ UNCHANGED <<file, documentType, dispatched, hPc>>
    /\ UNCHANGED <<sanVars, cardVars, jobVars>>

\* a button that looks at the uploaded files only
AnalyseEnabled_FilesOnly == uploadedFiles # <<>>

\* the Analyse Documents button takes a click:
\* disabled={isProcessing || uploadedFiles.length === 0}
AnalyseEnabled == ~(isProcessing \/ uploadedFiles = <<>>)

\* handleAnalyzeDocuments, from the click to its first await or its end
AnalyseDocuments ==
    /\ AnalyseEnabled
    /\ Len(runs) < MaxRuns
    /\ nextId <= MaxIds
    /\ IF uploadedFiles = <<>>
       THEN /\ Commit(AppendMessage(PageState, "Please upload", <<>>, FALSE))
            /\ UNCHANGED <<isProcessing, runs>>
       ELSE LET started == startProcessingMessages(PageState, processingMessageInterval)
                r == ProcessFiles(started,
                                  [files |-> uploadedFiles,
                                   interval |-> processingMessageInterval,
                                   started |-> started.pmi,
                                   i |-> 1, pc |-> "started", log |-> <<>>])
            IN  /\ Commit(r.st)
                /\ runs' = Append(runs, r.run)
                /\ isProcessing' = (r.run.pc # "ended")
    /\ UNCHANGED <<uploadedFiles, homeSummaryData, drivingLicenseData>>
    /\ UNCHANGED <<file, documentType, dispatched, hPc>>
    /\ UNCHANGED <<sanVars, cardVars, jobVars>>

\* the request of a call of handleAnalyzeDocuments is answered:
\* processStatementPDF / processDrivingLicense go on after their awaits, and
\* handleAnalyzeDocuments after them, to its next await or its end
Respond(n) ==
    /\ runs[n].pc = "awaiting"
    /\ \E ok \in BOOLEAN :
           LET f == runs[n].files[runs[n].i]
               r == AfterResponse(PageState, runs[n], ok)
           IN  /\ Commit(r.st)
               /\ runs' = [runs EXCEPT ![n] = r.run]
               /\ isProcessing' = IF r.run.pc = "ended" THEN FALSE ELSE isProcessing
               /\ homeSummaryData' =
                      IF ok /\ Dispatch(f) = "statement" THEN <<"summary", f.name>>
                      ELSE homeSummaryData
               /\ drivingLicenseData' =
                      IF ok /\ Dispatch(f) = "driving_license" THEN <<"result", f.name>>
                      ELSE drivingLicenseData
    /\ UNCHANGED uploadedFiles
    /\ UNCHANGED <<file, documentType, dispatched, hPc>>
    /\ UNCHANGED <<sanVars, cardVars, jobVars>>

\* onRefresh
Refresh ==
    /\ leftChatMessages' = <<leftChatMessages[1]>>
    /\ uploadedFiles' = <<>>
    /\ homeSummaryData' = <<>>
    /\ drivingLicenseData' = <<>>
    /\ UNCHANGED <<isProcessing, processingMessageInterval, timers, runs, nextId>>
    /\ UNCHANGED <<file, documentType, dispatched, hPc>>
    /\ UNCHANGED <<sanVars, cardVars, jobVars>>

\* an interval fires: the last message, when it is the processing message
\* the interval was set with, takes another of the processingMessages
IntervalFires ==
    /\ \E t \in timers :
           LET last == leftChatMessages[Len(leftChatMessages)]
           IN  leftChatMessages' =
                   IF last.id = t.firstMessageId
                   THEN [leftChatMessages EXCEPT ![Len(leftChatMessages)].kind =
                                                     "Running advanced analysis"]
                   ELSE leftChatMessages
    /\ UNCHANGED <<uploadedFiles, isProcessing, homeSummaryData, drivingLicenseData,
                   processingMessageInterval, timers, runs, nextId>>
    /\ UNCHANGED <<file, documentType, dispatched, hPc>>
    /\ UNCHANGED <<sanVars, cardVars, jobVars>>

PageNext ==
    \/ UploadFile
    \/ UploadFiles
    \/ SendMessage
    \/ AnalyseDocuments
    \/ \E n \in 1..Len(runs) : Respond(n)
    \/ Refresh
    \/ IntervalFires

SpecHome == PageInit /\ [][PageNext]_vars

(***************************************************************************)
(* Claims about the aggregation and the decoding in SummaryCard            *)
(***************************************************************************)
\* renderIncomeAndOutgoings has computed its totals
Totalled ==
    cPc \in {"commentary", "redFlags", "recommendations", "rendered",
             "threwCommentary", "threwRedFlags", "threwRecommendations"}

\* renderIncomeAndOutgoings has run
Aggregated == Totalled \/ cPc = "threwIncome"

Threw ==
    cPc \in {"threwPersonal", "threwIncome", "threwCommentary", "threwRedFlags",
             "threwRecommendations"}

RECURSIVE SumPence(_)
SumPence(entries) ==
    IF entries = <<>> THEN 0 ELSE entries[1].lit.n + SumPence(Tail(entries))

\* the number the decimal p / 100 denotes
Decimal(p) == JNumber(FromPence(p))

\* C5: the totals are the exact decimal sums of the amounts, and netBalance
\* their exact difference.
C5_ExactTotals ==
    Totalled =>
        /\ totalIncome = Decimal(SumPence(payload.income))
        /\ totalOutgoings = Decimal(SumPence(payload.outgoings))
        /\ netBalance = Decimal(SumPence(payload.income) - SumPence(payload.outgoings))

Reorderings(q) ==
    { [i \in 1..Len(q) |-> q[f[i]]] :
        f \in { g \in [1..Len(q) -> 1..Len(q)] :
                   \A i, j \in 1..Len(q) : g[i] = g[j] => i = j } }

TotalsOf(p) == renderIncomeAndOutgoings(parseSummaryData(PayloadText(p)))

\* C6: the totals are the same for every order of the entries of the
\* mappings.
C6_OrderIndependent ==
    Totalled =>
        \A i \in Reorderings(payload.income), o \in Reorderings(payload.outgoings) :
            LET r == TotalsOf([payload EXCEPT !.income = i, !.outgoings = o])
            IN  /\ r.totalIncome = totalIncome
                /\ r.totalOutgoings = totalOutgoings
                /\ r.netBalance = netBalance

\* the payload is a parseable object with both mappings in it, and the
\* sections rendered before them
HasMappings ==
    /\ payload.damage \in {"none"}
    /\ {"personalInformation", "summaryOfIncomeAndOutgoings", "income", "outgoings"}
           \subseteq payload.has
    /\ \A i \in 1..Len(payload.income) : payload.income[i].lit.k = "n"
    /\ \A i \in 1..Len(payload.outgoings) : payload.outgoings[i].lit.k = "n"

\* C7: aggregation has no error outcome: with both mappings present it does
\* not throw, an empty mapping has total 0, and netBalance is a number.
C7_NoAggregationError ==
    (HasMappings /\ Aggregated) =>
        /\ cPc # "threwIncome"
        /\ payload.income = <<>> => totalIncome = JNumber(FZero)
        /\ payload.outgoings = <<>> => totalOutgoings = JNumber(FZero)
        /\ netBalance.t = "number"

\* C7 witness: a summary with an empty income mapping and a non-empty
\* outgoings mapping was aggregated and rendered.
C7_Witness ==
    /\ cPc = "rendered"
    /\ payload.income = <<>> /\ payload.outgoings # <<>>
    /\ totalIncome = JNumber(FZero) /\ netBalance.t = "number"

\* C8: the scenario yields 6075.00, 5243.45 and 831.55 exactly.
C8_Scenario ==
    (Totalled /\ payload = Scenario) =>
        /\ totalIncome = Decimal(607500)
        /\ totalOutgoings = Decimal(524345)
        /\ netBalance = Decimal(83155)

TopLevel == {Sections[i] : i \in 1..Len(Sections)}

\* C10: a payload that lacks a top-level section is not accepted as a
\* decoded summary; one with all sections is accepted also when sub-fields
\* are missing; no render function throws on an absent field.
C10_SectionsRequired ==
    (payload.damage = "none" /\ cPc # "parse") =>
        /\ ~(TopLevel \subseteq payload.has) => ~Truthy(summaryData)
        /\ TopLevel \subseteq payload.has => Truthy(summaryData)
        /\ ~Threw

(***************************************************************************)
(* Claims about the sanitizer                                              *)
(***************************************************************************)
IsText(t) ==
    /\ DOMAIN t = 1..Len(t)
    /\ \A i \in 1..Len(t) : t[i].k \in {"c", "s", "n", "q", "p"}

\* C2: cleanJsonString is idempotent: cleaning its own output changes nothing.
C2_Idempotent == sPc = "recleaned" => sOut2 = sOut

\* A language tag: the letters that follow the opening fence on its line.
IsTagChar(u) == u.k = "c" /\ u.s \in {"j", "s", "o", "n"}

RECURSIVE DropTag(_)
DropTag(t) == IF t # <<>> /\ IsTagChar(t[1]) THEN DropTag(Tail(t)) ELSE t

\* The trimmed input opens with a fence line: fence, tag (possibly empty),
\* line break.
HasFenceLine(t) ==
    /\ StartsWith(t, Fence)
    /\ LET r == DropTag(SubstringFrom(t, FenceLen))
       IN  r # <<>> /\ r[1] = Ch("\n")

\* What is left of a fenced block: the text after the fence line, without a
\* closing fence, trimmed.
Interior(t) ==
    LET r == DropTag(SubstringFrom(t, FenceLen))
        b == IF EndsWith(r, Fence) THEN SubstringTo(r, Len(r) - FenceLen) ELSE r
    IN  Trim(b)

\* C3: a leading fence goes together with its language tag, whatever the tag
\* is; a trailing fence goes; the interior is returned trimmed and unaltered.
C3_FenceAndTagRemoved ==
    (sPc # "start" /\ HasFenceLine(Trim(sIn))) => sOut = Interior(Trim(sIn))

\* C4: cleanJsonString returns a string for every input, and the trimmed
\* input itself when that neither starts nor ends with a fence.
C4_NeverFails ==
    sPc # "start" =>
        /\ IsText(sOut)
        /\ (~StartsWith(Trim(sIn), Fence) /\ ~EndsWith(Trim(sIn), Fence))
              => sOut = Trim(sIn)

\* C4 witness: an input without markers and with surrounding white space has
\* been cleaned to a non-empty string.
C4_Witness ==
    /\ sPc = "cleaned"
    /\ ~StartsWith(Trim(sIn), Fence) /\ ~EndsWith(Trim(sIn), Fence)
    /\ sIn # Trim(sIn)
    /\ sOut # <<>>

\* C26: the cleaning of parseSummaryData and the cleaning of
\* parseIdentificationDocument return what cleanJsonString returns, for
\* every input; cleaning the string the route returns once more in the card
\* leaves it as it is.
C26_SanitizersAgree ==
    sPc # "start" =>
        /\ CleanInline(sIn) = sOut
        /\ CleanDocumentInline(sIn) = sOut
        /\ CleanInline(sOut) = sOut

(***************************************************************************)
(* Claims about decoding (checked under SpecCard).                         *)
(***************************************************************************)
UniqueLabels(entries) ==
    \A i \in 1..Len(entries) : \A k \in 1..Len(entries) :
        entries[i].label = entries[k].label => i = k

\* the pairs a mapping of the payload declares, amounts as numbers
Declared(entries) ==
    [i \in 1..Len(entries) |-> <<entries[i].label, JNumber(FromPence(entries[i].lit.n))>>]

IsWellFormed(p) ==
    /\ p.damage = "none" /\ p.has = AllParts
    /\ UniqueLabels(p.income) /\ UniqueLabels(p.outgoings)
    /\ \A i \in 1..Len(p.income) : p.income[i].lit.k = "n"
    /\ \A i \in 1..Len(p.outgoings) : p.outgoings[i].lit.k = "n"

DecodedMapping(name) == Get(Get(summaryData, "summaryOfIncomeAndOutgoings"), name)

\* C11: a well-formed payload with unique labels decodes, and the decoded
\* income and outgoings mappings hold exactly the payload's labels, spelled
\* as in the payload, each with its amount.
C11_KeysUnchanged ==
    (IsWellFormed(payload) /\ cPc # "parse") =>
        /\ Truthy(summaryData)
        /\ ObjectEntries(DecodedMapping("income")) = Declared(payload.income)
        /\ ObjectEntries(DecodedMapping("outgoings")) = Declared(payload.outgoings)

\* C11 witness: the payload whose labels differ in case and spacing only
\* was decoded and its mappings rendered.
C11_Witness ==
    /\ payload = Variants
    /\ cPc = "rendered"
    /\ Len(DecodedMapping("income").keys) = 3

\* the payload with every amount that is a numeric string written as the
\* number it holds
Unquote(entries) ==
    [i \in 1..Len(entries) |->
        [label |-> entries[i].label, lit |-> NumLit(entries[i].lit.n)]]
Unquoted(p) == [p EXCEPT !.income = Unquote(p.income), !.outgoings = Unquote(p.outgoings)]

HasNumericString(p) ==
    \/ \E i \in 1..Len(p.income) : p.income[i].lit.k = "q"
    \/ \E i \in 1..Len(p.outgoings) : p.outgoings[i].lit.k = "q"

\* C21: when amounts arrive as numeric strings, the totals are numbers, and
\* they are the totals of the same mappings with these amounts written as
\* numbers.
C21_NumericStringsCoerced ==
    (Totalled /\ payload.damage = "none" /\ payload.has = AllParts
        /\ HasNumericString(payload)) =>
        /\ totalIncome.t = "number" /\ totalOutgoings.t = "number"
        /\ totalIncome = TotalsOf(Unquoted(payload)).totalIncome
        /\ totalOutgoings = TotalsOf(Unquoted(payload)).totalOutgoings
        /\ netBalance = TotalsOf(Unquoted(payload)).netBalance

\* payloads with the mappings of p and other values elsewhere: with and
\* without totals of their own, another commentary, no list items
Elsewhere(p) ==
    { [p EXCEPT !.has = (AllParts \cup x) \ y] :
        x \in SUBSET Extras, y \in { {}, {"listItems"} } }

\* C22: the totals renderIncomeAndOutgoings has just computed are those of
\* every payload that has the same income and outgoings mappings, whatever
\* else the payloads hold: totals stated by the model, the commentary, the
\* lists.
C22_TotalsFromMappingsOnly ==
    (cPc = "commentary" /\ payload.damage = "none") =>
        \A q \in Elsewhere(payload) :
            LET r == TotalsOf(q)
            IN  /\ ~r.threw
                /\ r.totalIncome = totalIncome
                /\ r.totalOutgoings = totalOutgoings
                /\ r.netBalance = netBalance

\* C22 witness: a summary that states a total income of its own was
\* rendered with another total, the one of its mappings.
C22_Witness ==
    /\ cPc = "rendered"
    /\ "claimedTotals" \in payload.has
    /\ payload.income # <<>>
    /\ Get(Get(summaryData, "summaryOfIncomeAndOutgoings"), "totalIncome") # totalIncome
    /\ totalIncome = TotalsOf([payload EXCEPT !.has = AllParts]).totalIncome

\* the entries of a mapping with every label once, where it occurs first,
\* with the amount of its last occurrence
LastOf(entries, l) ==
    CHOOSE k \in 1..Len(entries) :
        entries[k].label = l /\ \A m \in (k + 1)..Len(entries) : entries[m].label # l
OncePerLabel(entries) ==
    LET firsts == SelectSeq([i \in 1..Len(entries) |-> i],
                            LAMBDA i : \A j \in 1..(i - 1) :
                                           entries[j].label # entries[i].label)
    IN  [i \in 1..Len(firsts) |->
            [label |-> entries[firsts[i]].label,
             lit |-> entries[LastOf(entries, entries[firsts[i]].label)].lit]]

HasDuplicate(entries) == ~UniqueLabels(entries)

\* C25: when a label occurs more than once in a mapping, the decoded mapping
\* holds it once with the amount of its last occurrence, and the totals are
\* those of the mappings with every label once.
C25_LastDuplicateWins ==
    (Totalled /\ payload.damage = "none" /\ payload.has = AllParts
        /\ (HasDuplicate(payload.income) \/ HasDuplicate(payload.outgoings))) =>
        /\ ObjectEntries(DecodedMapping("income")) = Declared(OncePerLabel(payload.income))
        /\ ObjectEntries(DecodedMapping("outgoings"))
               = Declared(OncePerLabel(payload.outgoings))
        /\ LET r == TotalsOf([payload EXCEPT !.income = OncePerLabel(payload.income),
                                             !.outgoings = OncePerLabel(payload.outgoings)])
           IN  /\ totalIncome = r.totalIncome
               /\ totalOutgoings = r.totalOutgoings
               /\ netBalance = r.netBalance

\* C25 witness: the summary with "Bank Transfer" twice in income was
\* rendered, the label decoded once with its later amount.
C25_Witness ==
    /\ payload = Duplicated
    /\ cPc = "rendered"
    /\ Len(DecodedMapping("income").keys) = 3
    /\ Get(DecodedMapping("income"), "Bank Transfer") = Decimal(10000)

(***************************************************************************)
(* Claims about the route handlers (checked under Spec).                   *)
(***************************************************************************)
\* `job_${timestamp}`, path.join(OUTPUT_DIR, `job_${timestamp}`) and
\* path.join(BACKEND_OUTPUT_DIR, `raw_gemini_response_${timestamp}.txt`):
\* each is the fixed directory and the timestamp
JobId(job) == <<"job", job.timestamp>>
JobOutputDir(job) == <<"output", JobId(job)>>
RawResponsePath(job) == <<"backend/output", "raw_gemini_response", job.timestamp>>
TempPath(job) == <<"temp", FilePath(job)>>

\* the handler of j has read the clock
Allocated(j) == jobs[j].timestamp # 0

\* C1: any two submissions that were allocated a job have different job
\* identifiers, different temp input paths, different job output
\* directories and different raw-response paths.
C1_JobIsolation ==
    \A a \in Job : \A b \in Job :
        (a # b /\ Allocated(a) /\ Allocated(b)) =>
            /\ JobId(jobs[a]) # JobId(jobs[b])
            /\ JobOutputDir(jobs[a]) # JobOutputDir(jobs[b])
            /\ RawResponsePath(jobs[a]) # RawResponsePath(jobs[b])
            /\ TempPath(jobs[a]) # TempPath(jobs[b])

\* C9: a finished process-pdf job that answers with success carries a
\* summary that parses; when the model output is unparseable or absent the
\* answer is a failure.
C9_SuccessIsDecoded ==
    \A j \in Job :
        (jobs[j].route = "process-pdf" /\ jobs[j].pc = "done" /\ jobs[j].response.success)
            => JSONparse(jobs[j].response.summary).ok

(***************************************************************************)
(* Claims about identity documents (checked under Spec).                   *)
(***************************************************************************)
\* the passport handler of j has read resultData and answered
Decoded(j) == jobs[j].route = "passport" /\ jobs[j].pc = "done" /\ jobs[j].read # <<>>

IdentityObjects == UNION { {IdentityObject(k), NestedIdentityObject(k)} : k \in Job }

\* C12: when the identity output is prose, one object and prose, the
\* passport route answers with that object parsed, also when the object has
\* an object inside it.
C12_EmbeddedObjectExtracted ==
    \A j \in Job : \A obj \in IdentityObjects :
        (Decoded(j) /\ jobs[j].read = Embedded(obj)) =>
            /\ jobs[j].response.success
            /\ jobs[j].response.result = JSONparse(obj).v

\* the heuristic finds no span in t, or finds one that does not parse
HasSpan(t) == IndexOf(t, "{") >= 0 /\ IndexOf(t, "}") + 1 > IndexOf(t, "{")
Span(t) == SubSeq(t, IndexOf(t, "{") + 1, IndexOf(t, "}") + 1)
HeuristicFails(t) == ~HasSpan(t) \/ ~JSONparse(Span(t)).ok

\* C13: when the brace-span heuristic fails on a text that parses as a
\* whole, the passport route answers with the whole text parsed.
C13_FallsBackToWholeText ==
    \A j \in Job :
        (Decoded(j) /\ HeuristicFails(jobs[j].read) /\ JSONparse(jobs[j].read).ok) =>
            /\ jobs[j].response.success
            /\ jobs[j].response.result = JSONparse(jobs[j].read).v

\* { rawResponse: <the text> }
FallbackResult(t) == JObject(<<"rawResponse">>, <<JText(t)>>)

\* C14: when the identity output exists and neither the span nor the whole
\* text parses, the passport route still answers with success, the result
\* being the fallback that carries the raw text.
C14_FallbackNotError ==
    \A j \in Job :
        (Decoded(j) /\ HeuristicFails(jobs[j].read) /\ ~JSONparse(jobs[j].read).ok) =>
            /\ jobs[j].response.success
            /\ jobs[j].response.result = FallbackResult(jobs[j].read)

(***************************************************************************)
(* Claims about the classifier (checked under SpecClassifier).             *)
(***************************************************************************)
\* by declared type or by extension
IsPdfTyped(f) == f.type = "application/pdf" \/ NameEndsWith(FileName(f), ".pdf")
IsImageTyped(f) ==
    \/ f.type \in {"image/jpeg", "image/png"}
    \/ \E e \in {".jpg", ".jpeg", ".png"} : NameEndsWith(FileName(f), e)

\* C15: every PDF-typed file is dispatched to statement processing.
C15_PdfIsStatement ==
    (hPc = "analysed" /\ IsPdfTyped(file)) => dispatched = "statement"

\* C16: every image-typed file that is not a PDF is dispatched to
\* driving-license processing, with and without a licence keyword in its
\* name; no file is dispatched to the passport path.
C16_ImageIsDrivingLicense ==
    hPc = "analysed" =>
        /\ (IsImageTyped(file) /\ ~IsPdfTyped(file)) => dispatched = "driving_license"
        /\ dispatched # "passport"

\* C16 witness: an image whose name has none of the keywords was dispatched
\* to driving-license processing.
C16_Witness ==
    /\ hPc = "analysed"
    /\ IsImageTyped(file) /\ ~IsPdfTyped(file)
    /\ ~HasLicenceKeyword(FileName(file))
    /\ documentType = "Image Document"
    /\ dispatched = "driving_license"

\* C17: the classifier selects one of the three document types for every
\* file, never an unsupported outcome.
C17_ClassifierTotal ==
    hPc = "analysed" => dispatched \in {"statement", "driving_license", "passport"}

(***************************************************************************)
(* Claims about the model invocation (checked under Spec).                 *)
(***************************************************************************)
\* the result file of the job of j, as the script left it
ArtifactPath(j) == <<jobs[j].timestamp, ResultName(jobs[j].route)>>
HasArtifact(j) == ArtifactPath(j) \in DOMAIN outFiles

\* the handler of j has answered after a script that exited with an error
InvocationFailed(j) == jobs[j].pc = "done" /\ Allocated(j) /\ jobs[j].exit # 0

\* C18: when the script fails the job ends in failure, and its answer
\* reports the content of the output file the script left, if there is
\* one, and the failure reason otherwise.
C18_PartialOutputReported ==
    \A j \in Job :
        InvocationFailed(j) =>
            /\ ~jobs[j].response.success
            /\ IF HasArtifact(j)
               THEN jobs[j].response.summary = outFiles[ArtifactPath(j)]
               ELSE jobs[j].response.error # ""

\* C19: every submitted job eventually reaches a terminal outcome, also when
\* its script never returns.
C19_EveryJobEnds ==
    \A j \in Job : (jobs[j].pc = "received") ~> (jobs[j].pc = "done")

\* the temp input file of j is there, with the bytes j wrote
TempFileLeft(j) ==
    /\ FilePath(jobs[j]) \in DOMAIN temp
    /\ temp[FilePath(jobs[j])] = j

\* C23: once a job has its answer, whatever the outcome, the temp input
\* file written for it is gone.
C23_TempFileRemoved ==
    \A j \in Job : jobs[j].pc = "done" => ~TempFileLeft(j)

StepOrder == <<"write", "invoke", "read", "sanitize", "decode">>

IsPrefix(a, b) == Len(a) <= Len(b) /\ SubSeq(b, 1, Len(a)) = a

\* the request of j failed the checks of the handler: no file, or not the
\* kind of file the route takes
Rejected(j) == jobs[j].pc = "done" /\ jobs[j].response.status = 400

\* C24: a job takes its steps in the order write, invoke, read, sanitize,
\* decode, none left out before a later one; a rejected request takes none
\* and leaves no file.
C24_StepsInOrder ==
    \A j \in Job :
        /\ IsPrefix(jobs[j].steps, StepOrder)
        /\ Rejected(j) => (jobs[j].steps = <<>> /\ ~TempFileLeft(j) /\ ~Allocated(j))

\* the process-pdf handler of j has read the model output and answered
ReadOutput(j) ==
    /\ jobs[j].route = "process-pdf" /\ jobs[j].pc = "done"
    /\ jobs[j].exit = 0 /\ jobs[j].read # <<>>

\* C20: once a process-pdf job has read its model output, the raw-response
\* file of the job holds that output unchanged, whether or not it decodes,
\* and keeps holding it whatever this job or another job does later.
C20_RawResponseKept ==
    \A j \in Job :
        ReadOutput(j) =>
            /\ jobs[j].timestamp \in DOMAIN rawFiles
            /\ rawFiles[jobs[j].timestamp] = jobs[j].read

(***************************************************************************)
(* Claims about the page (checked under SpecHome).                         *)
(***************************************************************************)
InFlight(n) == runs[n].pc = "awaiting"
Ended(n) == runs[n].pc = "ended"

\* C27: once a call of handleAnalyzeDocuments has ended, the interval it
\* started is cleared; when every call has ended no message is flagged
\* isProcessing; at most one interval runs at any time.
C27_IntervalCleared ==
    /\ \A n \in 1..Len(runs) : Ended(n) => runs[n].started \notin { t.id : t \in timers }
    /\ (\A n \in 1..Len(runs) : Ended(n)) =>
           \A i \in 1..Len(leftChatMessages) : ~leftChatMessages[i].isProcessing
    /\ Cardinality(timers) <= 1

\* C28: at most one call of handleAnalyzeDocuments is in flight;
\* isProcessing is true exactly while one is; the button takes no click
\* while isProcessing is true.
C28_OneAnalysisAtATime ==
    /\ Cardinality({ n \in 1..Len(runs) : InFlight(n) }) <= 1
    /\ isProcessing = (\E n \in 1..Len(runs) : InFlight(n))
    /\ isProcessing => ~AnalyseEnabled

\* C28 witness: a first analysis has ended with an error, isProcessing went
\* back to false, and a second analysis is in flight.
C28_Witness ==
    /\ Len(runs) = 2
    /\ Ended(1) /\ runs[1].log[Len(runs[1].log)][1] = "error"
    /\ InFlight(2)
    /\ isProcessing

\* the page as the refresh leaves it
Refreshed ==
    /\ leftChatMessages = <<Greeting>>
    /\ uploadedFiles = <<>>
    /\ homeSummaryData = <<>>
    /\ drivingLicenseData = <<>>

\* C29: the refresh leaves the greeting alone in the chat and no files, no
\* summary and no licence data; the answer to a request made before the
\* refresh leaves the page so.
C29_RefreshIsKept ==
    [][ /\ Refresh => Refreshed'
        /\ (Refreshed /\ \E n \in 1..Len(runs) : Respond(n)) => Refreshed' ]_vars

\* what the log of a call says about the files, in the order of the log
FileEntries(run) == SelectSeq(run.log, LAMBDA e : e[1] \in {"fetch", "unsupported"})
HasEntry(run, what) == \E k \in 1..Len(run.log) : run.log[k][1] = what
LastEntry(run) == run.log[Len(run.log)]

\* C30: a call of handleAnalyzeDocuments takes the files one by one in
\* upload order, a request for a supported file and only a message for an
\* unsupported one; no two requests are out at the same time; after a
\* failed request comes one error message and nothing more: no later file,
\* no message that the analysis is complete; a call that completes has
\* taken every file.
C30_OneFileAtATime ==
    /\ Cardinality({ n \in 1..Len(runs) : InFlight(n) }) <= 1
    /\ \A n \in 1..Len(runs) :
           LET run == runs[n]
               entries == FileEntries(run)
           IN  /\ \A k \in 1..Len(entries) :
                      /\ entries[k][2] = k
                      /\ entries[k][1] = IF Dispatch(run.files[k]) = "unsupported"
                                         THEN "unsupported" ELSE "fetch"
               /\ InFlight(n) => LastEntry(run) = <<"fetch", run.i>>
               /\ HasEntry(run, "error") =>
                      /\ Ended(n)
                      /\ Cardinality({ k \in 1..Len(run.log) : run.log[k][1] = "error" }) = 1
                      /\ LastEntry(run)[1] = "error"
                      /\ run.log[Len(run.log) - 1] = <<"fetch", LastEntry(run)[2]>>
                      /\ ~HasEntry(run, "complete")
               /\ HasEntry(run, "complete") =>
                      /\ Ended(n)
                      /\ LastEntry(run) = <<"complete", 0>>
                      /\ Len(entries) = Len(run.files)
               /\ Ended(n) => (HasEntry(run, "error") \/ HasEntry(run, "complete"))

\* C30 witness: three files were uploaded, a text file first; the call got
\* past the text file with a message, requested the second file, and the
\* request failed: the call has ended with the error message and the third
\* file was never taken.
C30_Witness ==
    \E n \in 1..Len(runs) :
        /\ Len(runs[n].files) = 3
        /\ Ended(n)
        /\ runs[n].log = << <<"unsupported", 1>>, <<"fetch", 2>>, <<"error", 2>> >>

====
